---------------------------- MODULE Spec2Model ----------------------------
(* A state-machine model of the image-search ingestion function             *)
(* (src/src/image_processor): the event handler process_image, the helper   *)
(* extract_location_from_path, the location service, and the region         *)
(* fallback of the Gemini analyzer.                                          *)
(*                                                                          *)
(* Text is modelled as a sequence of tokens.  The tokens are "/" (the path  *)
(* separator), "_" (the underscore used by '_'.join), "full_path_" (the     *)
(* ten-character marker tested by str.startswith, kept as one token) and    *)
(* ordinary characters.  Python's None is the value None below; a Python    *)
(* value is truthy when it is neither None nor empty.                       *)
EXTENDS Integers, Sequences, FiniteSets, TLC

VARIABLES
    cloud_event,      \* the inbound event object handed to process_image
    source_bucket,    \* object keys stored in the event's bucket
    processed_bucket, \* object keys stored in PROCESSED_BUCKET
    blob_metadata,    \* the custom metadata of the stored object
    pc,               \* position of the invocation inside process_image
    result,           \* what process_image returned: [returned, status]
    location_name,    \* local variable location_name
    location_info,    \* local variable location_info
    resolver,         \* the location service call in flight
    calls,            \* collaborator calls issued so far, in order
    outcome,          \* how each stage's collaborators answered
    invoker,          \* state of _generate_with_fallback: the retry attempt,
                      \* the loop's region, the region the client is bound
                      \* to, the regions called and failed in this sweep
    analysis,         \* results of the analyzer's generate calls so far
    sink_call,        \* keyword arguments of the attempted upsert call
    index,            \* identifiers present in the vector index
    backups,          \* backup blobs of the sink's bucket, by blob name
    documents,        \* documents of the index_metadata collection, by key
    upsert,           \* the upsert_embedding call in flight and its caller
    embedding_generator,
                      \* the embedding generator: the collaborator's vector
                      \* and the vector generate_embedding returns
    workers,          \* invocations of process_image running side by side
                      \* in one process, each with its own locals
    scratch,          \* files under /tmp, by path
    meter,            \* count of generate_content calls, where it is kept
    deliveries,       \* how the earlier deliveries of the event ended
    search            \* the search service: request, index answer, response

vars == <<cloud_event, source_bucket, processed_bucket, blob_metadata, pc,
          result, location_name, location_info, resolver, calls, outcome,
          invoker, analysis, sink_call, index, backups, documents, upsert,
          embedding_generator, workers, scratch, meter, deliveries, search>>

-----------------------------------------------------------------------------
(* Bounds of the model.                                                     *)

\* longest object key, in tokens, given to extract_location_from_path
MaxKeyLen == 7

\* number of upsert_embedding calls made on one sink
MaxUpserts == 2

\* largest degree, minute or second value of a GPS tag
MaxDms == 2

\* largest absolute value of a component of the collaborator's vector
MaxComponent == 2

\* largest number of redeliveries of one event
MaxRedeliveries == 1

\* largest number of neighbours the index returns for a query
MaxNeighbors == 2

-----------------------------------------------------------------------------
(* Text.                                                                    *)

None == <<"<None>">>
EmptyStr == <<>>
Slash == "/"
Underscore == "_"
Marker == "full_path_"
KeyTokens == {Slash, Marker, "a", "b"}

Truthy(x) == x # None /\ x # EmptyStr

AllKeys == UNION {[1..n -> KeyTokens] : n \in 0..MaxKeyLen}

\* '/' in s
HasSlash(s) == \E i \in 1..Len(s) : s[i] = Slash

\* index of the first "/" of s, or 0
RECURSIVE FirstSlashFrom(_, _)
FirstSlashFrom(s, i) ==
    IF i > Len(s) THEN 0
    ELSE IF s[i] = Slash THEN i
    ELSE FirstSlashFrom(s, i + 1)

\* str.split('/'): the list of segments, empty segments kept
RECURSIVE Split(_)
Split(s) ==
    LET i == FirstSlashFrom(s, 1) IN
    IF i = 0 THEN <<s>>
    ELSE <<SubSeq(s, 1, i - 1)>> \o Split(SubSeq(s, i + 1, Len(s)))

\* '_'.join(parts)
RECURSIVE JoinUnderscore(_)
JoinUnderscore(parts) ==
    IF Len(parts) = 0 THEN EmptyStr
    ELSE IF Len(parts) = 1 THEN parts[1]
    ELSE parts[1] \o <<Underscore>> \o JoinUnderscore(Tail(parts))

\* seg.startswith('full_path_')
StartsWithMarker(seg) == Len(seg) >= 1 /\ seg[1] = Marker

\* os.path.basename(s): what follows the last "/"
Basename(s) == LET parts == Split(s) IN parts[Len(parts)]

-----------------------------------------------------------------------------
(* extract_location_from_path                                               *)

\* a marker test that accepts the marker at the start of any part
UsesFullPath_AnyPart(path_parts) ==
    /\ Len(path_parts) > 2
    /\ \E i \in 1..Len(path_parts) : StartsWithMarker(path_parts[i])

\* the marker test of line 74: more than two parts and the LAST part
\* starts with the marker
UsesFullPath(path_parts) ==
    Len(path_parts) > 2 /\ StartsWithMarker(path_parts[Len(path_parts)])

\* a variant that returns the folder next to the file name
extract_location_from_path_LastFolder(file_path) ==
    IF file_path = None \/ file_path = EmptyStr \/ ~HasSlash(file_path)
    THEN None
    ELSE LET path_parts == Split(file_path) IN path_parts[Len(path_parts) - 1]

extract_location_from_path(file_path) ==
    IF file_path = None \/ file_path = EmptyStr \/ ~HasSlash(file_path)
    THEN None
    ELSE LET path_parts == Split(file_path) IN
         IF Len(path_parts) < 2 THEN None
         ELSE IF UsesFullPath(path_parts)
              THEN JoinUnderscore(SubSeq(path_parts, 1, Len(path_parts) - 1))
              ELSE path_parts[1]

-----------------------------------------------------------------------------
(* Values the handler works with.                                           *)

\* the statuses process_image returns
StatusSuccess == 200
StatusBadRequest == 400
StatusError == 500

\* self.regions of GeminiImageAnalyzer, in list order
regions == <<"us-central1", "europe-west2", "europe-west3",
             "asia-northeast1", "australia-southeast1", "asia-south1">>

\* the region _initialize_model binds when called without argument (__init__)
DefaultRegion == "us-central1"

\* stop_after_attempt(3) of the retry decorator
StopAfterAttempt == 3

SourceBucketName == <<"uploads">>
ProcessedBucketName == <<"processed">>

\* object keys the events of the pipeline specification carry
EventKeys ==
    { <<"a">>,
      <<"a", Slash, "b">>,
      <<Slash, "b">>,
      <<"a", Slash, "b", Slash, Marker, "c">> }

\* a Python dict is a function from its keys; a missing dict is NoDict
NoDict == [is_none |-> TRUE]
EmptyDict == [k \in {} |-> EmptyStr]
DictGet(d, k) == IF d # NoDict /\ k \in DOMAIN d THEN d[k] ELSE None
DictTruthy(d) == d # NoDict /\ DOMAIN d # {}

\* blob.metadata of the uploaded object
BlobMetadatas ==
    { NoDict,
      EmptyDict,
      [location |-> EmptyStr],
      [location |-> <<"Tokyo">>],
      [author |-> <<"x">>] }

\* cloud events: without a data attribute, with data None, or with a
\* data dict whose "bucket" and "name" may be missing (None) or empty
CloudEvents ==
    { [has_data |-> FALSE, data_is_none |-> TRUE, bucket |-> None, name |-> None],
      [has_data |-> TRUE, data_is_none |-> TRUE, bucket |-> None, name |-> None] }
    \cup
    [ has_data : {TRUE}, data_is_none : {FALSE},
      bucket : {None, EmptyStr, SourceBucketName},
      name : {None, EmptyStr} \cup EventKeys ]

\* Optional[Dict] returned by the location service
NoLocation == [is_none |-> TRUE]

\* what the places collaborator answers: an exception, an empty result
\* list, or a first result with coordinates
PlacesAnswers == {"raise", "empty", "found"}
PlaceCoordinates == <<35, 139>>

\* address candidates of the reverse-geocoding collaborator
Tokyo == [formatted_address |-> <<"Tokyo, Japan">>, place_id |-> <<"p1">>,
          address_components |->
             << [types |-> {"locality", "political"}, long_name |-> <<"Tokyo">>],
                [types |-> {"country", "political"}, long_name |-> <<"Japan">>] >>]
Shibuya == [formatted_address |-> <<"Shibuya, Tokyo">>, place_id |-> <<"p2">>,
            address_components |->
               << [types |-> {"locality"}, long_name |-> <<"Shibuya">>],
                  [types |-> {"locality"}, long_name |-> <<"Tokyo">>],
                  [types |-> {"postal_code"}, long_name |-> <<"150">>],
                  [types |-> {"country", "locality"}, long_name |-> <<"Japan">>] >>]

\* candidate lists reverse_geocode returns
GeocodeLists == { <<>>, <<Tokyo>>, <<Shibuya, Tokyo>> }

-----------------------------------------------------------------------------
(* LocationService.get_location_details_from_coordinates                    *)

\* the if/elif chain of lines 166-173: the key one address component sets,
\* or None when it carries none of the four type tags
ComponentKey(types) ==
    IF "country" \in types THEN <<"country">>
    ELSE IF "administrative_area_level_1" \in types THEN <<"state">>
    ELSE IF "locality" \in types THEN <<"city">>
    ELSE IF "postal_code" \in types THEN <<"postal_code">>
    ELSE None

\* a loop that keeps the value of the first component setting a key
RECURSIVE AddressComponents_FirstWins(_, _)
AddressComponents_FirstWins(components, acc) ==
    IF components = <<>> THEN acc
    ELSE LET c == Head(components)
             k == ComponentKey(c.types)
         IN  AddressComponents_FirstWins(
                 Tail(components),
                 IF k = None \/ k[1] \in DOMAIN acc THEN acc
                 ELSE [x \in DOMAIN acc \cup {k[1]} |->
                          IF x = k[1] THEN c.long_name ELSE acc[x]])

\* the loop of lines 164-173 over address_components, starting from acc
RECURSIVE AddressComponents(_, _)
AddressComponents(components, acc) ==
    IF components = <<>> THEN acc
    ELSE LET c == Head(components)
             k == ComponentKey(c.types)
         IN  AddressComponents(
                 Tail(components),
                 IF k = None THEN acc
                 ELSE [x \in DOMAIN acc \cup {k[1]} |->
                          IF x = k[1] THEN c.long_name ELSE acc[x]])

\* location_details built from the first candidate (lines 152-176)
LocationDetails(location_data, latitude, longitude) ==
    [ formatted_address |-> location_data.formatted_address,
      latitude |-> latitude,
      longitude |-> longitude,
      place_id |-> location_data.place_id,
      components |-> AddressComponents(location_data.address_components, EmptyDict) ]

\* answers of the reverse-geocoding collaborator: an exception, or a
\* candidate list
GeocodeAnswers ==
    {[raises |-> TRUE, results |-> <<>>]}
    \cup [raises : {FALSE}, results : GeocodeLists]

\* a lookup without its except clause: the collaborator's exception
\* reaches the caller
FromCoordinates_Unguarded(answer, latitude, longitude) ==
    IF answer.raises THEN [raised |-> TRUE]
    ELSE IF answer.results = <<>> THEN NoLocation
    ELSE LocationDetails(answer.results[1], latitude, longitude)

\* what get_location_details_from_coordinates returns for an answer
FromCoordinates(answer, latitude, longitude) ==
    IF answer.raises THEN NoLocation
    ELSE IF answer.results = <<>> THEN NoLocation
    ELSE LocationDetails(answer.results[1], latitude, longitude)

-----------------------------------------------------------------------------
(* LocationService._get_decimal_coordinates and the GPS tags of an image    *)

\* A coordinate is kept as a whole number of arc-seconds, that is, the
\* decimal degrees of the code times SecondsPerDegree: with whole degree,
\* minute and second values degrees + minutes/60.0 + seconds/3600.0 is the
\* arc-second count divided by 3600.
SecondsPerDegree == 3600
SecondsPerMinute == 60

\* a GPSLatitude or GPSLongitude value: degrees, minutes, seconds
DmsValues == [1..3 -> 0..MaxDms]

\* a tag value that does not unpack into three numbers
MalformedDms == <<1, 2>>

\* dict.get(key, default) on the GPS dict
GpsGet(gps_coords, k, default) ==
    IF k \in DOMAIN gps_coords THEN gps_coords[k] ELSE default

\* what dict.get yields for a missing GPSLatitude or GPSLongitude (None)
NoDms == <<>>

\* the GPS dict with the given values; NoDms and "absent" leave the key out
GpsDict(lat, lat_ref, lon, lon_ref) ==
    LET keys == (IF lat = NoDms THEN {} ELSE {"GPSLatitude"})
                \cup (IF lat_ref = "absent" THEN {} ELSE {"GPSLatitudeRef"})
                \cup (IF lon = NoDms THEN {} ELSE {"GPSLongitude"})
                \cup (IF lon_ref = "absent" THEN {} ELSE {"GPSLongitudeRef"})
    IN  [k \in keys |->
            IF k = "GPSLatitude" THEN lat
            ELSE IF k = "GPSLatitudeRef" THEN lat_ref
            ELSE IF k = "GPSLongitude" THEN lon
            ELSE lon_ref]

\* the coordinate pair, or no pair (Python's None)
NoCoordinates == <<>>

\* a conversion that counts the minutes as seconds
convert_to_degrees_MinutesAsSeconds(value) ==
    value[1] * SecondsPerDegree + value[2] + value[3]

\* lines 58-63: degrees + minutes / 60.0 + seconds / 3600.0, in arc-seconds
convert_to_degrees(value) ==
    value[1] * SecondsPerDegree + value[2] * SecondsPerMinute + value[3]

\* lines 46-77; a value that does not unpack raises ValueError, which the
\* except clause turns into None
get_decimal_coordinates(gps_coords) ==
    LET lat_data == GpsGet(gps_coords, "GPSLatitude", NoDms)
        lat_ref == GpsGet(gps_coords, "GPSLatitudeRef", "N")
        lon_data == GpsGet(gps_coords, "GPSLongitude", NoDms)
        lon_ref == GpsGet(gps_coords, "GPSLongitudeRef", "E")
    IN  IF lat_data = NoDms \/ lon_data = NoDms THEN NoCoordinates
        ELSE IF Len(lat_data) # 3 \/ Len(lon_data) # 3 THEN NoCoordinates
        ELSE << IF lat_ref = "S" THEN 0 - convert_to_degrees(lat_data)
                ELSE convert_to_degrees(lat_data),
                IF lon_ref = "W" THEN 0 - convert_to_degrees(lon_data)
                ELSE convert_to_degrees(lon_data) >>

\* an image file: whether Image.open succeeds, whether it has EXIF data,
\* and the GPSInfo dict of its EXIF data (empty when there is none)
NoImage == [opens |-> FALSE, exif |-> FALSE, gps_info |-> EmptyDict]

-----------------------------------------------------------------------------
(* process_image: helpers                                                   *)

Call(op, arg) == [op |-> op, arg |-> arg]

\* an except clause that reports success
ExceptStatus_Success == StatusSuccess

\* the handler's `except Exception` clause: return str(e), 500
ExceptStatus == StatusError

Return(status) ==
    /\ result' = [returned |-> TRUE, status |-> status]
    /\ pc' = "done"

\* a choice that prefers the object key to the metadata
ChosenLocationName_PathFirst(metadata, file_name) ==
    LET from_path == extract_location_from_path(file_name)
    IN  IF Truthy(from_path) THEN from_path
        ELSE IF DictTruthy(metadata) THEN DictGet(metadata, "location")
        ELSE None

\* lines 153-162: metadata "location" first, the object key otherwise
ChosenLocationName(metadata, file_name) ==
    LET from_metadata == IF DictTruthy(metadata)
                         THEN DictGet(metadata, "location")
                         ELSE None
    IN  IF Truthy(from_metadata) THEN from_metadata
        ELSE extract_location_from_path(file_name)

\* line 166: the location service is called only for a truthy name
CallsLocationService(name) == Truthy(name)

\* parameters of VectorSearchClient.upsert_embedding (self aside) and the
\* keywords process_image passes at lines 201-205
UpsertParameters == {"embedding", "file_path", "metadata"}
UpsertKeywords == {"embedding", "id", "metadata"}

\* Python binds a keyword-only call when every keyword names a parameter
\* and every parameter without default is given; otherwise TypeError
CallBinds(keywords, parameters) ==
    keywords \subseteq parameters /\ parameters \subseteq keywords

-----------------------------------------------------------------------------
(* GeminiImageAnalyzer: responses and parsing                               *)

\* the three generate calls of analyze_image, in order, with the field
\* each reads from the parsed response
AnalysisFields == <<"description", "characteristics", "objects">>

\* response.text of a model call that returned: JSON text of an object with
\* the requested field, JSON text of an object without it, or text that is
\* not JSON (here: the text of an object cut off before its end; "object"
\* is then what a reader of the fragment could make out)
ResponseTexts(field) ==
    { [is_json |-> TRUE,  object |-> [k \in {field} |-> <<"v">>]],
      [is_json |-> TRUE,  object |-> EmptyDict],
      [is_json |-> FALSE, object |-> [k \in {field} |-> <<"cut">>]] }

\* a parser that salvages what it can from text that is not JSON
parse_json_response_Lenient(response_text) == response_text.object

\* _parse_json_response: json.loads, and {} on JSONDecodeError
parse_json_response(response_text) ==
    IF response_text.is_json THEN response_text.object ELSE EmptyDict

\* a dict.get without default
GetOrDefault_NoDefault(d, k, default) == IF k \in DOMAIN d THEN d[k] ELSE None

\* dict.get(key, default)
GetOrDefault(d, k, default) == IF k \in DOMAIN d THEN d[k] ELSE default

IdleInvoker(bound) ==
    [phase |-> "idle", attempt |-> 0, region_idx |-> 0,
     bound_region |-> bound, sweep_log |-> <<>>, failed |-> {}]

\* entry of _generate_with_fallback: first attempt, first region
StartSweep(bound, attempt) ==
    [phase |-> "init", attempt |-> attempt, region_idx |-> 1,
     bound_region |-> bound, sweep_log |-> <<>>, failed |-> {}]

\* the analyzer's locals; "texts" notes, for each generate call that
\* returned, whether the response text it returned from was valid JSON
NoAnalysis ==
    [step |-> 0, context_description |-> None,
     visual_characteristics |-> None, object_annotations |-> None,
     texts |-> <<>>]

\* a metadata dict that leaves the location out
Metadata_NoLocation(file_name, bucket_name, an, loc) ==
    [ file_name |-> file_name,
      original_bucket |-> bucket_name,
      content_type |-> <<"image/jpeg">>,
      size |-> <<"size">>,
      context |-> an.context_description,
      characteristics |-> an.visual_characteristics,
      objects |-> an.object_annotations,
      processed_image_path |-> <<"gs://">> \o ProcessedBucketName \o <<Slash>> \o file_name,
      location |-> NoLocation ]

\* the metadata dict of lines 189-199
Metadata(file_name, bucket_name, an, loc) ==
    [ file_name |-> file_name,
      original_bucket |-> bucket_name,
      content_type |-> <<"image/jpeg">>,
      size |-> <<"size">>,
      context |-> an.context_description,
      characteristics |-> an.visual_characteristics,
      objects |-> an.object_annotations,
      processed_image_path |-> <<"gs://">> \o ProcessedBucketName \o <<Slash>> \o file_name,
      location |-> loc ]

-----------------------------------------------------------------------------
(* Initial state: an event is delivered; the services are constructed.      *)

\* nothing answered yet; "model" turns to "fail" when a region fails
NoOutcome ==
    [fetch |-> "none", location |-> "none", model |-> "none",
     analysis |-> "none", embedding |-> "none"]

\* the location service before any call
NoResolver ==
    [coordinates |-> NoCoordinates, called |-> FALSE, image |-> NoImage,
     answer |-> [raises |-> FALSE, results |-> <<>>], returned |-> NoLocation]

\* the sink before any upsert_embedding call: no call in flight, no
\* identifier generated, nothing returned or raised to a caller
NoUpsert ==
    [file_path |-> None, embedding |-> None, metadata |-> NoDict,
     given |-> NoDict, generated_id |-> None, returned |-> None,
     raised |-> FALSE, log |-> <<>>]

\* the embedding generator before any call
NoEmbedding == [raw |-> NoDict, returned |-> NoDict]

\* no invocation runs beside the one of pc, and /tmp holds no file
NoWorkers == <<>>
NoScratch == EmptyDict

\* no generate_content call counted
NoMeter == [generate_calls |-> 0, analyze_calls |-> 0]

\* the event was not delivered before
NoDeliveries == <<>>

\* the search service before any request
NoSearch == [phase |-> "idle"]

OthersIdle ==
    /\ embedding_generator = NoEmbedding
    /\ workers = NoWorkers
    /\ scratch = NoScratch
    /\ meter = NoMeter
    /\ deliveries = NoDeliveries
    /\ search = NoSearch

Init ==
    /\ cloud_event \in CloudEvents
    /\ source_bucket \in
         IF cloud_event.name \in EventKeys THEN {{}, {cloud_event.name}} ELSE {{}}
    /\ blob_metadata \in IF source_bucket = {} THEN {NoDict} ELSE BlobMetadatas
    /\ processed_bucket = {}
    /\ pc = "start"
    /\ result = [returned |-> FALSE, status |-> 0]
    /\ location_name = None
    /\ location_info = NoLocation
    /\ resolver = NoResolver
    /\ calls = <<>>
    /\ outcome = NoOutcome
    /\ invoker = IdleInvoker(DefaultRegion)
    /\ analysis = NoAnalysis
    /\ sink_call = NoDict
    /\ index = {}
    /\ backups = EmptyDict
    /\ documents = EmptyDict
    /\ upsert = NoUpsert
    /\ OthersIdle

-----------------------------------------------------------------------------
(* process_image, stage by stage                                            *)

storage == <<source_bucket, processed_bucket, blob_metadata>>
others == <<embedding_generator, workers, scratch, meter, deliveries, search>>
sink == <<sink_call, index, backups, documents, upsert>>
location == <<location_name, location_info, resolver>>
model == <<invoker, analysis>>

\* lines 111-133: validate the event
Validate ==
    /\ pc = "start"
    /\ IF ~cloud_event.has_data
       THEN Return(StatusBadRequest)
       ELSE IF cloud_event.data_is_none
            \* data.get on None raises AttributeError inside the try block
            THEN Return(ExceptStatus)
            ELSE IF ~Truthy(cloud_event.bucket) \/ ~Truthy(cloud_event.name)
                 THEN Return(StatusBadRequest)
                 ELSE pc' = "reload" /\ UNCHANGED result
    /\ UNCHANGED <<cloud_event, others, storage, location, calls, outcome, model, sink>>

\* lines 137-141: blob.reload(), which needs the object to exist
Reload ==
    /\ pc = "reload"
    /\ calls' = Append(calls, Call("reload", cloud_event.name))
    /\ \E ok \in {b \in BOOLEAN : b => cloud_event.name \in source_bucket} :
          IF ok THEN pc' = "download" /\ UNCHANGED <<result, outcome>>
          ELSE /\ outcome' = [outcome EXCEPT !.fetch = "fail"]
               /\ Return(ExceptStatus)
    /\ UNCHANGED <<cloud_event, others, storage, location, model, sink>>

\* a download that is tried again after a failure
Download_Retries ==
    /\ pc = "download"
    /\ calls' = Append(calls, Call("download", cloud_event.name))
    /\ \E ok \in BOOLEAN :
          IF ok THEN /\ pc' = "location"
                     /\ outcome' = [outcome EXCEPT !.fetch = "ok"]
                     /\ UNCHANGED result
          ELSE /\ outcome' = [outcome EXCEPT !.fetch = "fail"]
               /\ IF Len(calls) < 3 THEN pc' = "download" /\ UNCHANGED result
                  ELSE Return(ExceptStatus)
    /\ UNCHANGED <<cloud_event, others, storage, location, model, sink>>

\* lines 146-149: blob.download_to_filename(local_path)
Download ==
    /\ pc = "download"
    /\ calls' = Append(calls, Call("download", cloud_event.name))
    /\ \E ok \in BOOLEAN :
          IF ok THEN /\ pc' = "location"
                     /\ outcome' = [outcome EXCEPT !.fetch = "ok"]
                     /\ UNCHANGED result
          ELSE /\ outcome' = [outcome EXCEPT !.fetch = "fail"]
               /\ Return(ExceptStatus)
    /\ UNCHANGED <<cloud_event, others, storage, location, model, sink>>

\* lines 151-166 and 174-175: choose the location name
ChooseLocation ==
    /\ pc = "location"
    /\ location_name' = ChosenLocationName(blob_metadata, cloud_event.name)
    /\ location_info' = NoLocation
    /\ IF CallsLocationService(location_name')
       THEN pc' = "places" /\ UNCHANGED outcome
       ELSE pc' = "encode" /\ outcome' = [outcome EXCEPT !.location = "skipped"]
    /\ UNCHANGED <<cloud_event, others, storage, resolver, result, calls, model, sink>>

\* a handler for which a missing location is fatal
LocationUnavailable_Aborts ==
    /\ location_info' = NoLocation
    /\ outcome' = [outcome EXCEPT !.location = "fail"]
    /\ Return(ExceptStatus)

\* get_location_details returned None (lines 117, 126, 140, 150, 180) and
\* process_image goes on to the analysis with location_info None
LocationUnavailable ==
    /\ location_info' = NoLocation
    /\ outcome' = [outcome EXCEPT !.location = "fail"]
    /\ pc' = "encode"
    /\ UNCHANGED result

\* get_location_details (lines 112-140): the place search
PlacesSearch ==
    /\ pc = "places"
    /\ calls' = Append(calls, Call("places", location_name))
    /\ \E answer \in PlacesAnswers :
          IF answer = "found"
          THEN /\ resolver' = [resolver EXCEPT !.called = TRUE,
                                               !.coordinates = PlaceCoordinates]
               /\ pc' = "reverse_geocode"
               /\ UNCHANGED <<outcome, location_info, result>>
          ELSE \* an exception or an empty result list: return None
               /\ resolver' = [resolver EXCEPT !.called = TRUE]
               /\ LocationUnavailable
    /\ UNCHANGED <<cloud_event, others, storage, location_name, model, sink>>

\* get_location_details_from_coordinates (lines 142-180); its result is
\* returned by get_location_details and assigned to location_info (line 169)
ReverseGeocode ==
    /\ pc = "reverse_geocode"
    /\ calls' = Append(calls, Call("reverse_geocode", resolver.coordinates))
    /\ \E answer \in GeocodeAnswers :
          LET details == FromCoordinates(answer, resolver.coordinates[1],
                                         resolver.coordinates[2])
          IN  /\ resolver' = [resolver EXCEPT !.answer = answer,
                                              !.returned = details]
              /\ IF details = NoLocation
                 THEN LocationUnavailable
                 ELSE /\ location_info' = details
                      /\ outcome' = [outcome EXCEPT !.location = "ok"]
                      /\ pc' = "encode"
                      /\ UNCHANGED result
    /\ UNCHANGED <<cloud_event, others, storage, location_name, model, sink>>

-----------------------------------------------------------------------------
(* analyzer.analyze_image (line 178) and _generate_with_fallback            *)

\* an analysis failure that is swallowed: the handler goes on to embed
AnalysisFailed_Swallowed ==
    /\ outcome' = [outcome EXCEPT !.analysis = "fail"]
    /\ pc' = "embed"
    /\ UNCHANGED result

\* the handler's exception path out of the analysis stage
AnalysisFailed ==
    /\ outcome' = [outcome EXCEPT !.analysis = "fail"]
    /\ Return(ExceptStatus)

\* line 185: _encode_image, then the first generate call is entered
EncodeImage ==
    /\ pc = "encode"
    /\ \E ok \in BOOLEAN :
          IF ok
          THEN /\ pc' = "generate"
               /\ analysis' = [NoAnalysis EXCEPT !.step = 1]
               /\ invoker' = StartSweep(invoker.bound_region, 1)
               /\ UNCHANGED <<result, outcome>>
          ELSE AnalysisFailed /\ UNCHANGED <<analysis, invoker>>
    /\ UNCHANGED <<cloud_event, others, storage, location, calls, sink>>

\* lines 136-141: the region of the for loop failed; continue with the next
\* region, or leave the loop and raise "All regions failed"
RegionFailed(inv) ==
    LET noted == [inv EXCEPT !.failed = @ \cup {regions[inv.region_idx]}]
    IN  IF inv.region_idx < Len(regions)
        THEN [noted EXCEPT !.region_idx = @ + 1, !.phase = "init"]
        ELSE [noted EXCEPT !.phase = "sweep_failed"]

\* an _initialize_model that ignores its argument
BoundAfterInit_Default(region) == DefaultRegion

\* the region _initialize_model(region) binds the client to when it succeeds
BoundAfterInit(region) == region

\* line 133: self._initialize_model(region)
InitializeModel ==
    /\ pc = "generate"
    /\ invoker.phase = "init"
    /\ \E ok \in BOOLEAN :
          IF ok
          THEN /\ invoker' = [invoker EXCEPT
                                !.bound_region = BoundAfterInit(regions[invoker.region_idx]),
                                !.phase = "call"]
               /\ UNCHANGED outcome
          ELSE /\ invoker' = RegionFailed(invoker)
               /\ outcome' = [outcome EXCEPT !.model = "fail"]
    /\ UNCHANGED <<cloud_event, others, storage, location, pc, result, calls, analysis, sink>>

\* line 135 and lines 192-221: the response text of generate call number
\* analysis.step is parsed and returned by the invoker; the analyzer reads
\* its field with a default, and either enters the next generate call or
\* returns the ImageAnalysis
TakeResponse(text, bound) ==
    LET k == analysis.step
        parsed == parse_json_response(text)
        got == GetOrDefault(parsed, AnalysisFields[k], EmptyStr)
        noted == [analysis EXCEPT !.texts = Append(@, text.is_json)]
        an == IF k = 1 THEN [noted EXCEPT !.context_description = got]
              ELSE IF k = 2 THEN [noted EXCEPT !.visual_characteristics = got]
              ELSE [noted EXCEPT !.object_annotations = got]
    IN  IF k < Len(AnalysisFields)
        THEN /\ analysis' = [an EXCEPT !.step = k + 1]
             /\ invoker' = StartSweep(bound, 1)
             /\ UNCHANGED <<pc, result, outcome>>
        ELSE /\ analysis' = an
             /\ invoker' = IdleInvoker(bound)
             /\ outcome' = [outcome EXCEPT !.analysis = "ok"]
             /\ pc' = "embed"
             /\ UNCHANGED result

\* lines 134-135: self.model.generate_content(...) on the bound client, then
\* _parse_json_response(response.text)
GenerateContent ==
    /\ pc = "generate"
    /\ invoker.phase = "call"
    /\ LET called == [invoker EXCEPT
                        !.sweep_log = Append(@, invoker.bound_region)]
       IN  \/ \* the call raises: the except clause of the loop
              /\ invoker' = RegionFailed(called)
              /\ outcome' = [outcome EXCEPT !.model = "fail"]
              /\ UNCHANGED <<pc, result, analysis>>
           \/ \* the call returns text: the first successful region returns
              \E text \in ResponseTexts(AnalysisFields[analysis.step]) :
                 TakeResponse(text, called.bound_region)
    /\ UNCHANGED <<cloud_event, others, storage, location, calls, sink>>

\* a decorator that stops after one attempt more
RetryOrReraise_FourSweeps ==
    /\ pc = "generate"
    /\ invoker.phase = "sweep_failed"
    /\ IF invoker.attempt < StopAfterAttempt + 1
       THEN /\ invoker' = StartSweep(invoker.bound_region, invoker.attempt + 1)
            /\ UNCHANGED <<pc, result, outcome>>
       ELSE /\ invoker' = IdleInvoker(invoker.bound_region)
            /\ AnalysisFailed
    /\ UNCHANGED <<cloud_event, others, storage, location, calls, analysis, sink>>

\* a decorator that reraises after the first failed sweep
RetryOrReraise_NoRetry ==
    /\ pc = "generate"
    /\ invoker.phase = "sweep_failed"
    /\ invoker' = IdleInvoker(invoker.bound_region)
    /\ AnalysisFailed
    /\ UNCHANGED <<cloud_event, others, storage, location, calls, analysis, sink>>

\* an analyzer that, when the invoker gives up, returns the ImageAnalysis
\* built so far
RetryOrReraise_Partial ==
    /\ pc = "generate"
    /\ invoker.phase = "sweep_failed"
    /\ IF invoker.attempt < StopAfterAttempt
       THEN /\ invoker' = StartSweep(invoker.bound_region, invoker.attempt + 1)
            /\ UNCHANGED <<pc, result, outcome>>
       ELSE /\ invoker' = IdleInvoker(invoker.bound_region)
            /\ outcome' = [outcome EXCEPT !.analysis = "ok"]
            /\ pc' = "embed"
            /\ UNCHANGED result
    /\ UNCHANGED <<cloud_event, others, storage, location, calls, analysis, sink>>

\* the retry decorator (lines 122-126) after a sweep raised: run the sweep
\* again while attempts remain, reraise otherwise
RetryOrReraise ==
    /\ pc = "generate"
    /\ invoker.phase = "sweep_failed"
    /\ IF invoker.attempt < StopAfterAttempt
       THEN /\ invoker' = StartSweep(invoker.bound_region, invoker.attempt + 1)
            /\ UNCHANGED <<pc, result, outcome>>
       ELSE /\ invoker' = IdleInvoker(invoker.bound_region)
            /\ AnalysisFailed
    /\ UNCHANGED <<cloud_event, others, storage, location, calls, analysis, sink>>

-----------------------------------------------------------------------------
(* embedding and upsert                                                     *)

\* lines 182-186: embedding_generator.generate_embedding
GenerateEmbedding ==
    /\ pc = "embed"
    /\ calls' = Append(calls, Call("get_embeddings", cloud_event.name))
    /\ \E ok \in BOOLEAN :
          IF ok THEN /\ pc' = "upsert"
                     /\ outcome' = [outcome EXCEPT !.embedding = "ok"]
                     /\ UNCHANGED result
          ELSE /\ outcome' = [outcome EXCEPT !.embedding = "fail"]
               /\ Return(ExceptStatus)
    /\ UNCHANGED <<cloud_event, others, storage, location, model, sink>>

\* lines 189-205: build the metadata and call vector_search.upsert_embedding
\* with the keywords embedding, id and metadata.  The call enters the sink
\* only when it binds; a call that does not bind raises TypeError, which
\* the handler's except clause turns into its error status.
CallUpsert ==
    /\ pc = "upsert"
    /\ sink_call' = [keywords |-> UpsertKeywords,
                     metadata |-> Metadata(cloud_event.name, cloud_event.bucket,
                                           analysis, location_info)]
    /\ IF CallBinds(UpsertKeywords, UpsertParameters)
       THEN pc' = "sink" /\ UNCHANGED result
       ELSE Return(ExceptStatus)
    /\ UNCHANGED <<cloud_event, others, storage, location, calls, outcome, model, index,
                   backups, documents, upsert>>

Next ==
    \/ Validate
    \/ Reload
    \/ Download
    \/ ChooseLocation
    \/ PlacesSearch
    \/ ReverseGeocode
    \/ EncodeImage
    \/ InitializeModel
    \/ GenerateContent
    \/ RetryOrReraise
    \/ GenerateEmbedding
    \/ CallUpsert

Spec == Init /\ [][Next]_vars

-----------------------------------------------------------------------------
(* extract_location_from_path on its own: every key up to MaxKeyLen tokens, *)
(* the key of the documented example, and a missing key.                    *)

ParisKey == <<"Paris", Slash, "eiffel.jpg">>
PathInputs == AllKeys \cup {ParisKey, None}

InitPath ==
    /\ cloud_event \in [has_data : {TRUE}, data_is_none : {FALSE},
                         bucket : {SourceBucketName}, name : PathInputs]
    /\ source_bucket = {}
    /\ blob_metadata = NoDict
    /\ processed_bucket = {}
    /\ pc = "path"
    /\ result = [returned |-> FALSE, status |-> 0]
    /\ location_name = None
    /\ location_info = NoLocation
    /\ resolver = NoResolver
    /\ calls = <<>>
    /\ outcome = NoOutcome
    /\ invoker = IdleInvoker(DefaultRegion)
    /\ analysis = NoAnalysis
    /\ sink_call = NoDict
    /\ index = {}
    /\ backups = EmptyDict
    /\ documents = EmptyDict
    /\ upsert = NoUpsert
    /\ OthersIdle

\* line 161: location_name = extract_location_from_path(file_name)
ExtractLocation ==
    /\ pc = "path"
    /\ location_name' = extract_location_from_path(cloud_event.name)
    /\ pc' = "path_done"
    /\ UNCHANGED <<cloud_event, others, storage, location_info, resolver, result, calls,
                   outcome, model, sink>>

NextPath == ExtractLocation

SpecPath == InitPath /\ [][NextPath]_vars

-----------------------------------------------------------------------------
(* The location service on its own, entered by image                        *)
(* (extract_location_from_image), by name (get_location_details) or by     *)
(* coordinates (get_location_details_from_coordinates).                     *)

GpsLatitudes == DmsValues \cup {MalformedDms}
GpsInfos ==
    {GpsDict(lat, lat_ref, lon, lon_ref) :
        lat \in GpsLatitudes, lat_ref \in {"N", "S", "absent"},
        lon \in GpsLatitudes, lon_ref \in {"E", "W", "absent"}}
    \cup {GpsDict(NoDms, lat_ref, lon, "E") :
             lat_ref \in {"S", "absent"}, lon \in GpsLatitudes}
    \cup {GpsDict(lat, "N", NoDms, lon_ref) :
             lat \in GpsLatitudes, lon_ref \in {"W", "absent"}}

Images ==
    { NoImage,
      [opens |-> TRUE, exif |-> FALSE, gps_info |-> EmptyDict],
      [opens |-> TRUE, exif |-> TRUE, gps_info |-> EmptyDict] }
    \cup [opens : {TRUE}, exif : {TRUE}, gps_info : GpsInfos]

LocationNames == {None, EmptyStr, <<"Tokyo">>}
CoordinateInputs == {PlaceCoordinates, <<0, 0>>}

InitResolver ==
    /\ cloud_event = [has_data |-> TRUE, data_is_none |-> FALSE,
                      bucket |-> SourceBucketName, name |-> <<"a.jpg">>]
    /\ source_bucket = {}
    /\ blob_metadata = NoDict
    /\ processed_bucket = {}
    /\ result = [returned |-> FALSE, status |-> 0]
    /\ location_info = NoLocation
    /\ calls = <<>>
    /\ outcome = NoOutcome
    /\ invoker = IdleInvoker(DefaultRegion)
    /\ analysis = NoAnalysis
    /\ sink_call = NoDict
    /\ index = {}
    /\ backups = EmptyDict
    /\ documents = EmptyDict
    /\ upsert = NoUpsert
    /\ OthersIdle
    /\ \/ /\ pc = "by_image"
          /\ location_name = None
          /\ \E image \in Images : resolver = [NoResolver EXCEPT !.image = image]
       \/ /\ pc = "by_name"
          /\ location_name \in LocationNames
          /\ resolver = NoResolver
       \/ /\ pc = "reverse_geocode"
          /\ location_name = None
          /\ \E coordinates \in CoordinateInputs :
                resolver = [NoResolver EXCEPT !.called = TRUE,
                                              !.coordinates = coordinates]

\* extract_location_from_image returns None (lines 87, 98, 103, 110)
ImageHasNoLocation ==
    /\ pc' = "returned"
    /\ UNCHANGED location_info

\* lines 79-103: open the image, read its EXIF data, collect the GPSInfo
\* tags and convert them; an exception of Image.open is caught at line 108
ExtractGps ==
    /\ pc = "by_image"
    /\ LET image == resolver.image
           coordinates == get_decimal_coordinates(image.gps_info)
       IN  IF ~image.opens \/ ~image.exif \/ image.gps_info = EmptyDict
           THEN /\ ImageHasNoLocation
                /\ resolver' = [resolver EXCEPT !.called = TRUE]
           ELSE IF coordinates = NoCoordinates
           THEN /\ ImageHasNoLocation
                /\ resolver' = [resolver EXCEPT !.called = TRUE]
           ELSE /\ resolver' = [resolver EXCEPT !.called = TRUE,
                                                !.coordinates = coordinates]
                /\ pc' = "lookup"
                /\ UNCHANGED location_info
    /\ UNCHANGED <<cloud_event, others, storage, location_name, result, calls, outcome,
                   model, sink>>

\* parameters of get_location_details (self aside)
LocationDetailsParameters == <<"location_name">>

\* Python binds a positional call to a method without defaults or *args
\* when it passes one argument per parameter; otherwise TypeError
PositionalCallBinds(arguments, parameters) == Len(arguments) = Len(parameters)

\* line 107: self.get_location_details(coordinates[0], coordinates[1]); a
\* call that does not bind raises TypeError, caught at line 108
LookupCoordinates ==
    /\ pc = "lookup"
    /\ IF PositionalCallBinds(resolver.coordinates, LocationDetailsParameters)
       THEN pc' = "by_name" /\ UNCHANGED location_info
       ELSE ImageHasNoLocation
    /\ UNCHANGED <<cloud_event, others, storage, location_name, resolver, result, calls,
                   outcome, model, sink>>

\* lines 112-117: get_location_details is entered; no name, no lookup
GetLocationDetails ==
    /\ pc = "by_name"
    /\ resolver' = [resolver EXCEPT !.called = TRUE]
    /\ IF Truthy(location_name)
       THEN pc' = "places" /\ UNCHANGED <<location_info, outcome, result>>
       ELSE LocationUnavailable
    /\ UNCHANGED <<cloud_event, others, storage, location_name, calls, model, sink>>

NextResolver ==
    \/ ExtractGps
    \/ LookupCoordinates
    \/ GetLocationDetails
    \/ PlacesSearch
    \/ ReverseGeocode

SpecResolver == InitResolver /\ [][NextResolver]_vars

-----------------------------------------------------------------------------
(* VectorSearchClient.upsert_embedding on its own: a caller makes up to     *)
(* MaxUpserts calls on one sink, each with a file path, an embedding and a  *)
(* metadata dict, which may be the dict object of its previous call.        *)

\* uuid.uuid4().hex: the n-th identifier drawn from the generator, different
\* from every identifier drawn before
UuidTokens == <<"u1", "u2", "u3", "u4">>
Uuid4Hex(n) == <<UuidTokens[n]>>

\* an identifier derived from the file name
GeneratedId_FromPath(file_path, n) == Basename(file_path)

\* an identifier that is the same in every call
GeneratedId_Fixed(file_path, n) == Uuid4Hex(1)

\* line 144: generated_id = self._generate_id(), for the n-th call
GeneratedId(file_path, n) == Uuid4Hex(n)

\* line 167: blob_name = f"embeddings/{generated_id}.json"
BlobName(id) == <<"embeddings/">> \o id \o <<".json">>

\* an update that keeps the values of the keys the dict already has
DictUpdate_KeepsOld(d, other) ==
    [k \in DOMAIN d \cup DOMAIN other |->
        IF k \in DOMAIN d THEN d[k] ELSE other[k]]

\* dict.update(other) and d[k] = v
DictUpdate(d, other) ==
    [k \in DOMAIN d \cup DOMAIN other |->
        IF k \in DOMAIN other THEN other[k] ELSE d[k]]
DictSet(d, k, v) == [x \in DOMAIN d \cup {k} |-> IF x = k THEN v ELSE d[x]]

\* firestore.SERVER_TIMESTAMP, a sentinel object json.dumps cannot encode
ServerTimestamp == <<"SERVER_TIMESTAMP">>
Serializable(metadata) ==
    \A k \in DOMAIN metadata : metadata[k] # ServerTimestamp

SinkFilePaths == { <<"a.jpg">>, <<"Paris", Slash, "a.jpg">> }
Embeddings == { <<"e1">>, <<"e2">> }
CallerMetadatas ==
    { [context |-> <<"v">>],
      [context |-> <<"v">>, file_name |-> <<"old">>] }

\* lines 158-164: storage_data, as json.dumps sees it at upload time
StorageData(call) ==
    [ id |-> call.generated_id,
      file_name |-> Basename(call.file_path),
      full_path |-> call.file_path,
      embedding |-> call.embedding,
      metadata |-> call.metadata ]

InitSink ==
    /\ cloud_event = [has_data |-> TRUE, data_is_none |-> FALSE,
                      bucket |-> SourceBucketName, name |-> <<"a.jpg">>]
    /\ source_bucket = {}
    /\ blob_metadata = NoDict
    /\ processed_bucket = {}
    /\ pc = "sink_idle"
    /\ result = [returned |-> FALSE, status |-> 0]
    /\ location_name = None
    /\ location_info = NoLocation
    /\ resolver = NoResolver
    /\ calls = <<>>
    /\ outcome = NoOutcome
    /\ invoker = IdleInvoker(DefaultRegion)
    /\ analysis = NoAnalysis
    /\ sink_call = NoDict
    /\ index = {}
    /\ backups = EmptyDict
    /\ documents = EmptyDict
    /\ upsert = NoUpsert
    /\ OthersIdle

pipeline == <<cloud_event, others, storage, location, result, calls, outcome,
              model, sink_call>>

\* lines 143-164: the call is entered; the identifier is generated and the
\* caller's metadata dict is updated in place with file_name and full_path
UpsertEmbedding ==
    /\ pc = "sink_idle"
    /\ Len(upsert.log) < MaxUpserts
    /\ \E file_path \in SinkFilePaths, embedding \in Embeddings,
          metadata \in CallerMetadatas
                       \cup (IF upsert.metadata = NoDict THEN {}
                             ELSE {upsert.metadata}) :
          LET generated_id == GeneratedId(file_path, Len(upsert.log) + 1)
          IN  upsert' =
                 [ file_path |-> file_path,
                   embedding |-> embedding,
                   metadata |-> DictUpdate(metadata,
                                   [file_name |-> Basename(file_path),
                                    full_path |-> file_path]),
                   given |-> metadata,
                   generated_id |-> generated_id,
                   returned |-> None,
                   raised |-> FALSE,
                   log |-> Append(upsert.log, [file_path |-> file_path,
                                               id |-> generated_id]) ]
    /\ pc' = "sink_backup"
    /\ UNCHANGED <<pipeline, index, backups, documents>>

\* lines 187-189: the except clause logs and re-raises to the caller
SinkRaises(call) ==
    /\ upsert' = [call EXCEPT !.raised = TRUE]
    /\ pc' = "sink_idle"

\* a backup whose failure is logged and passed over
WriteBackup_Swallows ==
    /\ pc = "sink_backup"
    /\ \E ok \in {b \in BOOLEAN : b => Serializable(upsert.metadata)} :
          /\ backups' = IF ok
                        THEN DictSet(backups, BlobName(upsert.generated_id),
                                     StorageData(upsert))
                        ELSE backups
          /\ pc' = "sink_metadata"
          /\ UNCHANGED upsert
    /\ UNCHANGED <<pipeline, index, documents>>

\* lines 167-168 and _upload_to_gcs: json.dumps(storage_data) and the upload
\* of the backup blob
WriteBackup ==
    /\ pc = "sink_backup"
    /\ \E ok \in {b \in BOOLEAN : b => Serializable(upsert.metadata)} :
          IF ok
          THEN /\ backups' = DictSet(backups, BlobName(upsert.generated_id),
                                     StorageData(upsert))
               /\ pc' = "sink_metadata"
               /\ UNCHANGED upsert
          ELSE SinkRaises(upsert) /\ UNCHANGED backups
    /\ UNCHANGED <<pipeline, index, documents>>

\* line 172 and _store_metadata_in_firestore: created_at is set on the
\* caller's dict, then the document is written under the generated id
StoreMetadata ==
    /\ pc = "sink_metadata"
    /\ LET stamped == [upsert EXCEPT
                          !.metadata = DictSet(@, "created_at", ServerTimestamp)]
       IN  \E ok \in BOOLEAN :
              IF ok
              THEN /\ documents' = DictSet(documents, upsert.generated_id,
                                           stamped.metadata)
                   /\ upsert' = stamped
                   /\ pc' = "sink_index"
              ELSE SinkRaises(stamped) /\ UNCHANGED documents
    /\ UNCHANGED <<pipeline, index, backups>>

\* lines 175-186: the datapoint is upserted into the index and the
\* generated id is returned
UpsertDatapoints ==
    /\ pc = "sink_index"
    /\ \E ok \in BOOLEAN :
          IF ok
          THEN /\ index' = index \cup {upsert.generated_id}
               /\ upsert' = [upsert EXCEPT !.returned = upsert.generated_id]
               /\ pc' = "sink_idle"
          ELSE SinkRaises(upsert) /\ UNCHANGED index
    /\ UNCHANGED <<pipeline, backups, documents>>

NextSink ==
    \/ UpsertEmbedding
    \/ WriteBackup
    \/ StoreMetadata
    \/ UpsertDatapoints

SpecSink == InitSink /\ [][NextSink]_vars

-----------------------------------------------------------------------------
(* EmbeddingGenerator.generate_embedding on its own.  A vector has the      *)
(* dimension asked for; its first components are listed, the others are 0.  *)

\* dimension=1408 of the get_embeddings call
Dimension == 1408

\* the components listed
Leading == 1..3

\* embeddings.image_embedding as the collaborator may return it
RawEmbeddings ==
    [dimension : {Dimension},
     components : [Leading -> (0 - MaxComponent)..MaxComponent]]

\* what get_embeddings answers: an exception, or a vector
EmbeddingAnswers ==
    {[raises |-> TRUE,
      vector |-> [dimension |-> Dimension, components |-> [i \in Leading |-> 0]]]}
    \cup [raises : {FALSE}, vector : RawEmbeddings]

\* the square of np.linalg.norm(embedding_array)
RECURSIVE SumOfSquares(_, _)
SumOfSquares(components, n) ==
    IF n = 0 THEN 0
    ELSE components[n] * components[n] + SumOfSquares(components, n - 1)
NormSquared(vector) == SumOfSquares(vector.components, Len(vector.components))

\* line 60: embedding_array / np.linalg.norm(embedding_array).  The
\* quotient is kept as its numerators and the square of the divisor; numpy
\* divides 0.0 by 0.0 to nan (with a RuntimeWarning, not an exception), so
\* the quotient of the all-zero vector has nan in every component
Normalized(vector) ==
    [dimension |-> vector.dimension,
     numerators |-> vector.components,
     divisor_squared |-> NormSquared(vector),
     nan |-> NormSquared(vector) = 0]

InitEmbedding ==
    /\ cloud_event = [has_data |-> TRUE, data_is_none |-> FALSE,
                      bucket |-> SourceBucketName, name |-> <<"a.jpg">>]
    /\ source_bucket = {}
    /\ blob_metadata = NoDict
    /\ processed_bucket = {}
    /\ pc = "embedding"
    /\ result = [returned |-> FALSE, status |-> 0]
    /\ location_name = None
    /\ location_info = NoLocation
    /\ resolver = NoResolver
    /\ calls = <<>>
    /\ outcome = NoOutcome
    /\ invoker = IdleInvoker(DefaultRegion)
    /\ analysis = NoAnalysis
    /\ sink_call = NoDict
    /\ index = {}
    /\ backups = EmptyDict
    /\ documents = EmptyDict
    /\ upsert = NoUpsert
    /\ \E answer \in EmbeddingAnswers :
          embedding_generator = [raw |-> answer, returned |-> NoDict]
    /\ workers = NoWorkers
    /\ scratch = NoScratch
    /\ meter = NoMeter
    /\ deliveries = NoDeliveries
    /\ search = NoSearch

\* lines 49-62: get_embeddings, then the division by the norm; an
\* exception of the collaborator leaves generate_embedding
NormalizeEmbedding ==
    /\ pc = "embedding"
    /\ IF embedding_generator.raw.raises
       THEN /\ pc' = "embedding_raised"
            /\ UNCHANGED embedding_generator
       ELSE /\ pc' = "embedded"
            /\ embedding_generator' =
                  [embedding_generator EXCEPT
                      !.returned = Normalized(embedding_generator.raw.vector)]
    /\ UNCHANGED <<cloud_event, storage, location, result, calls, outcome,
                   model, sink, workers, scratch, meter, deliveries, search>>

NextEmbedding == NormalizeEmbedding

SpecEmbedding == InitEmbedding /\ [][NextEmbedding]_vars

-----------------------------------------------------------------------------
(* Two invocations of process_image in one process.  The handler is served  *)
(* by threads of one process, so the module-level analyzer (main.py:42) and *)
(* the files under /tmp are common to the invocations; every step of an     *)
(* invocation is one step of its thread, and the threads interleave freely. *)

\* the pipeline variables no invocation of the specifications below touches
RestIdle ==
    /\ blob_metadata = NoDict
    /\ result = [returned |-> FALSE, status |-> 0]
    /\ location_name = None
    /\ location_info = NoLocation
    /\ resolver = NoResolver
    /\ calls = <<>>
    /\ outcome = NoOutcome
    /\ analysis = NoAnalysis
    /\ sink_call = NoDict
    /\ index = {}
    /\ backups = EmptyDict
    /\ documents = EmptyDict
    /\ upsert = NoUpsert

\* object keys of the events
ConcurrentKeys ==
    {<<"a", Slash, "x.jpg">>, <<"b", Slash, "x.jpg">>, <<"b", Slash, "y.jpg">>}

\* line 146: local_path = f"/tmp/{os.path.basename(file_name)}"
LocalPath(file_name) == <<"/tmp/">> \o Basename(file_name)

\* nothing read or called yet
NoContent == <<>>

\* the locals of one invocation: its key, its position, the position of its
\* generate call, the image it encoded, the client binding its last
\* generate_content call went through, and the image it embedded.  The
\* three generate calls of analyze_image go through the same steps on the
\* same analyzer; an invocation is followed through the first of them.
NewWorker(file_name) ==
    [file_name |-> file_name, at |-> "download", attempt |-> 0,
     region_idx |-> 0, encoded |-> NoContent, used |-> NoDict,
     embedded |-> NoContent]

InitConcurrent ==
    /\ cloud_event = [has_data |-> TRUE, data_is_none |-> FALSE,
                      bucket |-> SourceBucketName, name |-> <<"a.jpg">>]
    /\ source_bucket = ConcurrentKeys
    /\ processed_bucket = {}
    /\ pc = "concurrent"
    /\ RestIdle
    /\ invoker = IdleInvoker(DefaultRegion)
    /\ embedding_generator = NoEmbedding
    /\ \E k1 \in ConcurrentKeys : \E k2 \in ConcurrentKeys \ {k1} :
          workers = <<NewWorker(k1), NewWorker(k2)>>
    /\ scratch = NoScratch
    /\ meter = NoMeter
    /\ deliveries = NoDeliveries
    /\ search = NoSearch

ConcurrentFrame ==
    UNCHANGED <<cloud_event, storage, location, pc, result, calls, outcome,
                analysis, sink, embedding_generator, meter, deliveries, search>>

\* the except clause of process_image in invocation w
WorkerFails(w) == workers' = [workers EXCEPT ![w].at = "failed"]

\* line 148: blob.download_to_filename(local_path) writes the object's
\* content (named here by its key) to the local path
WorkerDownload(w) ==
    /\ workers[w].at = "download"
    /\ \E ok \in BOOLEAN :
          IF ok
          THEN /\ scratch' = DictSet(scratch, LocalPath(workers[w].file_name),
                                     workers[w].file_name)
               /\ workers' = [workers EXCEPT ![w].at = "encode"]
          ELSE WorkerFails(w) /\ UNCHANGED scratch
    /\ UNCHANGED invoker
    /\ ConcurrentFrame

\* analyzer.py:185 and 153: _encode_image opens the file at local_path
WorkerEncode(w) ==
    /\ workers[w].at = "encode"
    /\ workers' = [workers EXCEPT
                     ![w].encoded = scratch[LocalPath(workers[w].file_name)],
                     ![w].at = "init", ![w].attempt = 1,
                     ![w].region_idx = 1]
    /\ UNCHANGED <<scratch, invoker>>
    /\ ConcurrentFrame

\* analyzer.py:136-141 and 122-126 in invocation w: next region, next
\* sweep, or the exception leaves analyze_image
WorkerRegionFailed(wk) ==
    IF wk.region_idx < Len(regions)
    THEN [wk EXCEPT !.region_idx = @ + 1, !.at = "init"]
    ELSE IF wk.attempt < StopAfterAttempt
         THEN [wk EXCEPT !.attempt = @ + 1, !.region_idx = 1, !.at = "init"]
         ELSE [wk EXCEPT !.at = "failed"]

\* analyzer.py:133 and 117-120: _initialize_model(region) rebinds the one
\* analyzer's client (vertexai.init is process-wide, self.model is a field
\* of the module-level analyzer)
WorkerInitializeModel(w) ==
    /\ workers[w].at = "init"
    /\ \E ok \in BOOLEAN :
          IF ok
          THEN /\ invoker' = [invoker EXCEPT
                                !.bound_region =
                                   BoundAfterInit(regions[workers[w].region_idx])]
               /\ workers' = [workers EXCEPT ![w].at = "call",
                                             ![w].used = NoDict]
          ELSE /\ workers' = [workers EXCEPT
                                ![w] = WorkerRegionFailed(
                                          [workers[w] EXCEPT !.used = NoDict])]
               /\ UNCHANGED invoker
    /\ UNCHANGED scratch
    /\ ConcurrentFrame

\* analyzer.py:134: self.model.generate_content goes through whatever the
\* analyzer's client is bound to at this moment
WorkerGenerateContent(w) ==
    /\ workers[w].at = "call"
    /\ LET called == [workers[w] EXCEPT
                        !.used = [asked |-> regions[workers[w].region_idx],
                                  bound |-> invoker.bound_region]]
       IN  \E ok \in BOOLEAN :
              IF ok
              THEN workers' = [workers EXCEPT ![w] =
                                  [called EXCEPT !.at = "embed"]]
              ELSE workers' = [workers EXCEPT ![w] = WorkerRegionFailed(called)]
    /\ UNCHANGED <<scratch, invoker>>
    /\ ConcurrentFrame

\* main.py:182-185 and embedding.py:49: Image.load_from_file(image_path)
\* reads the file at local_path; the run then goes on to the upsert call
WorkerEmbed(w) ==
    /\ workers[w].at = "embed"
    /\ \E ok \in BOOLEAN :
          IF ok
          THEN workers' = [workers EXCEPT
                             ![w].embedded = scratch[LocalPath(workers[w].file_name)],
                             ![w].at = "upsert"]
          ELSE WorkerFails(w)
    /\ UNCHANGED <<scratch, invoker>>
    /\ ConcurrentFrame

NextConcurrent ==
    \/ \E w \in 1..2 : WorkerDownload(w)
    \/ \E w \in 1..2 : WorkerEncode(w)
    \/ \E w \in 1..2 : WorkerInitializeModel(w)
    \/ \E w \in 1..2 : WorkerGenerateContent(w)
    \/ \E w \in 1..2 : WorkerEmbed(w)

SpecConcurrent == InitConcurrent /\ [][NextConcurrent]_vars

-----------------------------------------------------------------------------
(* The relocation of main.py:208-213 on its own, entered as after an upsert *)
(* call that returned: the object of the event is in the source bucket.     *)

RelocateKeys == ConcurrentKeys \cup {<<"a.jpg">>}

InitRelocate ==
    /\ \E key \in RelocateKeys :
          /\ cloud_event = [has_data |-> TRUE, data_is_none |-> FALSE,
                            bucket |-> SourceBucketName, name |-> key]
          /\ \E others_there \in SUBSET (RelocateKeys \ {key}) :
                source_bucket = {key} \cup others_there
    /\ processed_bucket \in SUBSET (RelocateKeys \ {cloud_event.name})
    /\ pc = "rewrite"
    /\ RestIdle
    /\ invoker = IdleInvoker(DefaultRegion)
    /\ OthersIdle

\* line 211: processed_blob.rewrite(blob), called once.  One rewrite call
\* either completes the copy (the returned token is None and the
\* destination object exists), or copies a part and returns a token for
\* the next call (no destination object yet), or raises.  The returned
\* tuple is discarded.
Rewrite ==
    /\ pc = "rewrite"
    /\ calls' = Append(calls, Call("rewrite", cloud_event.name))
    /\ \E answer \in {"complete", "token", "raises"} :
          IF answer = "raises"
          THEN Return(ExceptStatus) /\ UNCHANGED processed_bucket
          ELSE /\ pc' = "delete"
               /\ processed_bucket' =
                     IF answer = "complete"
                     THEN processed_bucket \cup {cloud_event.name}
                     ELSE processed_bucket
               /\ UNCHANGED result
    /\ UNCHANGED <<cloud_event, others, source_bucket, blob_metadata, location,
                   outcome, model, sink>>

\* lines 212-215: blob.delete(), then return 'Success', 200
Delete ==
    /\ pc = "delete"
    /\ calls' = Append(calls, Call("delete", cloud_event.name))
    /\ \E ok \in BOOLEAN :
          IF ok
          THEN /\ source_bucket' = source_bucket \ {cloud_event.name}
               /\ Return(StatusSuccess)
          ELSE Return(ExceptStatus) /\ UNCHANGED source_bucket
    /\ UNCHANGED <<cloud_event, others, processed_bucket, blob_metadata,
                   location, outcome, model, sink>>

NextRelocate ==
    \/ Rewrite
    \/ Delete

SpecRelocate == InitRelocate /\ [][NextRelocate]_vars

-----------------------------------------------------------------------------
(* The search service: POST /search (search_api/main.py) and search_similar *)
(* (search_api/vector_search.py).  Distances, thresholds and scores are     *)
(* counted in hundredths.                                                   *)

\* 1.0, in hundredths
One == 100

\* data.get('threshold', 0.5) and data.get('num_results', 10)
DefaultThreshold == 50
DefaultNumResults == 10

\* request.get_json(): it raises for a body that is not JSON, returns None
\* for the JSON text null, and the dict of a JSON object
InvalidBody == [is_invalid |-> TRUE]
NullBody == NoDict
ObjectBodies ==
    { EmptyDict,
      [threshold |-> 30],
      [query |-> <<"q">>],
      [query |-> <<"q">>, threshold |-> 30],
      [query |-> <<"q">>, num_results |-> 1] }
SearchBodies == {InvalidBody, NullBody} \cup ObjectBodies

\* what find_neighbors answers for the query: neighbours in index order
NeighborIds == {<<"u1">>, <<"u2">>}
Distances == {30, 50, 60}
Neighbors == [id : NeighborIds, distance : Distances]
NeighborLists == UNION {[1..n -> Neighbors] : n \in 0..MaxNeighbors}

\* the index_metadata collection as the search service finds it
StoredDocuments ==
    { EmptyDict,
      [id \in {<<"u1">>} |-> [file_name |-> <<"x.jpg">>]],
      [id \in NeighborIds |-> [file_name |-> <<"x.jpg">>]] }

\* SearchResult(id=, score=, metadata=) of the models module
SearchResult(id, score, metadata) ==
    [id |-> id, score |-> score, metadata |-> metadata]

\* vector_search.py:117: distance > distance_threshold
BeyondThreshold(distance, distance_threshold) == distance > distance_threshold

\* vector_search.py:112-136: the loop over response[0]
RECURSIVE SearchResults(_, _, _)
SearchResults(neighbors, distance_threshold, docs) ==
    IF neighbors = <<>> THEN <<>>
    ELSE LET neighbor == Head(neighbors)
             metadata == IF neighbor.id \in DOMAIN docs THEN docs[neighbor.id]
                         ELSE EmptyDict
             rest == SearchResults(Tail(neighbors), distance_threshold, docs)
         IN  IF BeyondThreshold(neighbor.distance, distance_threshold)
             THEN rest
             ELSE <<SearchResult(neighbor.id, One - neighbor.distance, metadata)>>
                  \o rest

\* main.py:55-64: the response body
FormatResponse(query_text, results) ==
    [query |-> query_text,
     results |-> [i \in 1..Len(results) |->
                    [id |-> results[i].id,
                     similarity_score |-> results[i].score,
                     metadata |-> results[i].metadata]]]

NewSearch(body) ==
    [phase |-> "request", body |-> body, query_text |-> None,
     num_results |-> 0, threshold |-> 0, queried |-> FALSE,
     neighbors |-> <<>>, results |-> <<>>, status |-> 0, response |-> NoDict]

InitSearch ==
    /\ cloud_event = [has_data |-> TRUE, data_is_none |-> FALSE,
                      bucket |-> SourceBucketName, name |-> <<"a.jpg">>]
    /\ source_bucket = {}
    /\ processed_bucket = {}
    /\ pc = "search"
    /\ blob_metadata = NoDict
    /\ result = [returned |-> FALSE, status |-> 0]
    /\ location_name = None
    /\ location_info = NoLocation
    /\ resolver = NoResolver
    /\ calls = <<>>
    /\ outcome = NoOutcome
    /\ invoker = IdleInvoker(DefaultRegion)
    /\ analysis = NoAnalysis
    /\ sink_call = NoDict
    /\ index = {}
    /\ backups = EmptyDict
    /\ documents \in StoredDocuments
    /\ upsert = NoUpsert
    /\ embedding_generator = NoEmbedding
    /\ workers = NoWorkers
    /\ scratch = NoScratch
    /\ meter = NoMeter
    /\ deliveries = NoDeliveries
    /\ \E body \in SearchBodies : search = NewSearch(body)

SearchFrame ==
    UNCHANGED <<cloud_event, storage, location, pc, result, calls, outcome,
                model, sink, embedding_generator, workers, scratch, meter,
                deliveries>>

\* the handler returns with a status
Respond(s, status, response) ==
    [s EXCEPT !.phase = "done", !.status = status, !.response = response]

\* main.py:35-42: get_json, the test for 'query', the parameters.  get_json
\* raising and the membership test on None (TypeError) are both caught by
\* the except clause of lines 68-70
ReadRequest ==
    /\ search.phase = "request"
    /\ search' =
          IF search.body = InvalidBody \/ search.body = NullBody
          THEN Respond(search, StatusError, [error |-> <<"exception">>])
          ELSE IF "query" \notin DOMAIN search.body
               THEN Respond(search, StatusBadRequest,
                            [error |-> <<"No text query provided">>])
               ELSE [search EXCEPT
                        !.phase = "embed",
                        !.query_text = search.body["query"],
                        !.num_results = GetOrDefault(search.body, "num_results",
                                                     DefaultNumResults),
                        !.threshold = GetOrDefault(search.body, "threshold",
                                                   DefaultThreshold)]
    /\ SearchFrame

\* main.py:45: service.generate_text_embedding(query_text)
GenerateTextEmbedding ==
    /\ search.phase = "embed"
    /\ \E ok \in BOOLEAN :
          search' = IF ok THEN [search EXCEPT !.phase = "find"]
                    ELSE Respond(search, StatusError, [error |-> <<"exception">>])
    /\ SearchFrame

\* vector_search.py:106-110: self.index.find_neighbors
FindNeighbors ==
    /\ search.phase = "find"
    /\ \/ search' = Respond([search EXCEPT !.queried = TRUE], StatusError,
                             [error |-> <<"exception">>])
       \/ \E neighbors \in NeighborLists :
             search' = [search EXCEPT !.queried = TRUE, !.neighbors = neighbors,
                                      !.phase = "collect"]
    /\ SearchFrame

\* vector_search.py:112-140 and main.py:55-70: the results are collected
\* (a document read that raises ends the request with the error status)
\* and the response is returned
CollectResults ==
    /\ search.phase = "collect"
    /\ \E ok \in BOOLEAN :
          IF ok
          THEN LET results == SearchResults(search.neighbors, search.threshold,
                                            documents)
               IN  search' = Respond([search EXCEPT !.results = results],
                                     StatusSuccess,
                                     FormatResponse(search.query_text, results))
          ELSE search' = Respond(search, StatusError, [error |-> <<"exception">>])
    /\ SearchFrame

NextSearch ==
    \/ ReadRequest
    \/ GenerateTextEmbedding
    \/ FindNeighbors
    \/ CollectResults

SpecSearch == InitSearch /\ [][NextSearch]_vars

-----------------------------------------------------------------------------
(* Redelivery: the event of a finished run is delivered again to the same   *)
(* process.  deliveries keeps, for each finished run, its status, whether   *)
(* it got through every stage up to the upsert call, and the stores and     *)
(* the processed bucket as it left them.                                    *)

RedeliveredKey == <<"a", Slash, "b">>

InitRedeliver ==
    /\ cloud_event = [has_data |-> TRUE, data_is_none |-> FALSE,
                      bucket |-> SourceBucketName, name |-> RedeliveredKey]
    /\ source_bucket = {cloud_event.name}
    /\ processed_bucket = {}
    /\ pc = "start"
    /\ RestIdle
    /\ invoker = IdleInvoker(DefaultRegion)
    /\ OthersIdle

\* what a finished run leaves behind
RunSummary ==
    [status |-> result.status,
     reached_upsert |-> sink_call # NoDict,
     index |-> index, backups |-> backups, documents |-> documents,
     processed_bucket |-> processed_bucket]

\* main.py:108-109: process_image is entered again with the same event.
\* The locals of the run are new; the buckets, the stores and the
\* module-level analyzer (with the region its client is bound to) are those
\* the earlier run left.
Redeliver ==
    /\ pc = "done"
    /\ Len(deliveries) < MaxRedeliveries
    /\ deliveries' = Append(deliveries, RunSummary)
    /\ pc' = "start"
    /\ result' = [returned |-> FALSE, status |-> 0]
    /\ location_name' = None
    /\ location_info' = NoLocation
    /\ resolver' = NoResolver
    /\ calls' = <<>>
    /\ outcome' = NoOutcome
    /\ invoker' = IdleInvoker(invoker.bound_region)
    /\ analysis' = NoAnalysis
    /\ sink_call' = NoDict
    /\ UNCHANGED <<cloud_event, storage, index, backups, documents, upsert,
                   embedding_generator, workers, scratch, meter, search>>

NextRedeliver ==
    \/ Next
    \/ Redeliver

SpecRedeliver == InitRedeliver /\ [][NextRedeliver]_vars

-----------------------------------------------------------------------------
(* analyze_image with its generate_content calls counted: meter holds the   *)
(* number of calls of the current _generate_with_fallback call and of the   *)
(* whole analyze_image call.  The regions called are not logged here.       *)

InitInvoker ==
    /\ cloud_event = [has_data |-> TRUE, data_is_none |-> FALSE,
                      bucket |-> SourceBucketName, name |-> <<"a.jpg">>]
    /\ source_bucket = {cloud_event.name}
    /\ processed_bucket = {}
    /\ pc = "encode"
    /\ RestIdle
    /\ invoker = IdleInvoker(DefaultRegion)
    /\ OthersIdle

\* analyzer.py:134-139 with the call counted: generate_content raises and
\* the loop goes on, or it returns text and _generate_with_fallback
\* returns; the count of the current call starts again with the next
\* _generate_with_fallback call.  Which text is returned makes no
\* difference to the calls made: the text with the asked field is taken.
CountedGenerateContent ==
    /\ pc = "generate"
    /\ invoker.phase = "call"
    /\ LET counted == [meter EXCEPT !.generate_calls = @ + 1,
                                    !.analyze_calls = @ + 1]
       IN  \/ /\ invoker' = RegionFailed(invoker)
              /\ outcome' = [outcome EXCEPT !.model = "fail"]
              /\ meter' = counted
              /\ UNCHANGED <<pc, result, analysis>>
           \/ /\ \E text \in {t \in ResponseTexts(AnalysisFields[analysis.step]) :
                                 t.is_json /\ t.object # EmptyDict} :
                    TakeResponse(text, invoker.bound_region)
              /\ meter' = IF analysis.step < Len(AnalysisFields)
                          THEN [counted EXCEPT !.generate_calls = 0]
                          ELSE counted
    /\ UNCHANGED <<cloud_event, embedding_generator, workers, scratch,
                   deliveries, search, storage, location, calls, sink>>

NextInvoker ==
    \/ EncodeImage
    \/ InitializeModel
    \/ CountedGenerateContent
    \/ RetryOrReraise

SpecInvoker == InitInvoker /\ [][NextInvoker]_vars

\* every step that can be taken is taken: each model call returns or fails
SpecInvokerFair == SpecInvoker /\ WF_vars(NextInvoker)

-----------------------------------------------------------------------------
(* Properties of process_image (checked under Spec)                         *)

FileName == cloud_event.name
Ops == {calls[i].op : i \in DOMAIN calls}
Returned(status) == pc = "done" /\ result.returned /\ result.status = status

EventHasBucketAndKey ==
    /\ cloud_event.has_data
    /\ ~cloud_event.data_is_none
    /\ Truthy(cloud_event.bucket)
    /\ Truthy(cloud_event.name)

\* the object has left the source bucket for the processed bucket
Relocated == FileName \notin source_bucket /\ FileName \in processed_bucket

\* C1: an event with bucket and key whose collaborators all succeed ends
\* with status 200, exactly one upsert received by the sink, and the object
\* moved from the source bucket to the processed bucket under its key.
C1_SuccessfulRun ==
    (/\ pc = "done"
     /\ EventHasBucketAndKey
     /\ outcome.fetch = "ok"
     /\ outcome.location \in {"ok", "skipped"}
     /\ outcome.model = "none"
     /\ outcome.analysis = "ok"
     /\ outcome.embedding = "ok")
    => /\ result.status = StatusSuccess
       /\ Cardinality(index) = 1
       /\ Relocated

\* C2: an event without data, or whose data lacks a non-empty bucket or a
\* non-empty object name, is answered with status 400 and causes no
\* storage, geocoding, model, embedding or sink call.
C2_BadEventRejected ==
    pc = "done" /\ ~EventHasBucketAndKey
    => /\ result.status = StatusBadRequest
       /\ calls = <<>>
       /\ invoker = IdleInvoker(DefaultRegion)
       /\ analysis = NoAnalysis
       /\ sink_call = NoDict
       /\ index = {}
       /\ processed_bucket = {}

\* every stage up to and including the deletion of the source object is done
AllStagesCompleted ==
    /\ outcome.fetch = "ok"
    /\ outcome.analysis = "ok"
    /\ outcome.embedding = "ok"
    /\ sink_call # NoDict
    /\ index # {}
    /\ Relocated

\* C3: process_image never raises and always returns 200, 400 or 500: an
\* invocation that has not returned can always take a step, one that has
\* stopped has returned; and 200 is returned only when every stage up to
\* the deletion of the source object completed.
C3_StatusContract ==
    /\ result.returned <=> pc = "done"
    /\ result.returned =>
          result.status \in {StatusSuccess, StatusBadRequest, StatusError}
    /\ ~result.returned => ENABLED Next
    /\ result.returned /\ ~AllStagesCompleted => result.status # StatusSuccess

C3_Witness ==
    /\ Returned(StatusError)
    /\ outcome.analysis = "ok"
    /\ outcome.embedding = "fail"
    /\ ~AllStagesCompleted

\* the upsert call was issued and left nothing in the index
UpsertFailed == sink_call # NoDict /\ index = {}

\* C4: when the fetch, the analysis, the embedding or the upsert fails, the
\* invocation ends at once with status 500, no collaborator of a later
\* stage is called, and the source object stays in the source bucket.
C4_FailureIsTerminal ==
    (\/ outcome.fetch = "fail"
     \/ outcome.analysis = "fail"
     \/ outcome.embedding = "fail"
     \/ UpsertFailed)
    => /\ Returned(StatusError)
       /\ outcome.fetch = "fail" =>
             /\ Ops \subseteq {"reload", "download"}
             /\ analysis = NoAnalysis
             /\ invoker = IdleInvoker(DefaultRegion)
       /\ outcome.fetch = "fail" \/ outcome.analysis = "fail" =>
             /\ "get_embeddings" \notin Ops
             /\ outcome.embedding = "none"
       /\ outcome.embedding # "ok" => sink_call = NoDict /\ index = {}
       /\ Ops \cap {"copy", "delete"} = {}
       /\ processed_bucket = {}
       /\ outcome.fetch = "ok" => FileName \in source_bucket

C4_Witness ==
    /\ Returned(StatusError)
    /\ outcome.location = "ok"
    /\ outcome.analysis = "fail"
    /\ analysis.step = 2
    /\ FileName \in source_bucket

\* the status a finished run has, from the stages other than the location
StatusOfStages ==
    IF outcome.analysis = "ok" /\ outcome.embedding = "ok" /\ index # {} /\ Relocated
    THEN StatusSuccess
    ELSE StatusError

MetadataLocation ==
    IF "location" \in DOMAIN blob_metadata THEN blob_metadata["location"] ELSE EmptyStr
ExpectedLocationName ==
    IF MetadataLocation # EmptyStr THEN MetadataLocation
    ELSE extract_location_from_path(FileName)

PastLocationStage == pc \in {"encode", "generate", "embed", "upsert", "done"}

\* C6: the name passed to the resolver is the metadata value under
\* "location" when present and non-empty, else the name derived from the
\* object key; when neither gives a name the resolver is not called and the
\* run goes on with no location.
C6_ResolverName ==
    /\ \A i \in DOMAIN calls :
          calls[i].op = "places" => calls[i].arg = ExpectedLocationName
    /\ outcome.fetch = "ok" /\ PastLocationStage =>
          IF Truthy(ExpectedLocationName)
          THEN "places" \in Ops
          ELSE /\ Ops \cap {"places", "reverse_geocode"} = {}
               /\ location_info = NoLocation
               /\ pc = "done" => outcome.analysis # "none"

C6_Witness ==
    /\ blob_metadata = [location |-> <<"Tokyo">>]
    /\ FileName = <<"a", Slash, "b">>
    /\ \E i \in DOMAIN calls :
          calls[i].op = "places" /\ calls[i].arg = <<"Tokyo">>

\* C9: the metadata of the upsert call carries under "location" exactly the
\* record the resolver returned for the event's location name, components
\* included, and no location when the resolver returned none, failed or was
\* not called.
C9_SinkLocation ==
    sink_call # NoDict =>
        /\ sink_call.metadata.location =
              (IF resolver.called THEN resolver.returned ELSE NoLocation)
        /\ resolver.answer.results # <<>> =>
              /\ sink_call.metadata.location # NoLocation
              /\ sink_call.metadata.location.formatted_address
                    = resolver.answer.results[1].formatted_address
              /\ resolver.answer.results[1] = Tokyo =>
                    sink_call.metadata.location.components["city"] = <<"Tokyo">>
        /\ resolver.answer.results = <<>> =>
              sink_call.metadata.location = NoLocation

C9_Witness ==
    /\ sink_call # NoDict
    /\ resolver.answer.results = <<Tokyo>>
    /\ sink_call.metadata.location # NoLocation
    /\ sink_call.metadata.location.components["city"] = <<"Tokyo">>

-----------------------------------------------------------------------------
(* Properties of _generate_with_fallback (checked under Spec)               *)

RegionIndex(r) == CHOOSE i \in 1..Len(regions) : regions[i] = r
RegionsBefore(i) == {regions[j] : j \in 1..(i - 1)}
Sweeping == pc = "generate" /\ invoker.phase \in {"init", "call", "sweep_failed"}

\* within a sweep: the loop is at a region of the list, every region before
\* it has failed in this sweep and none after it was touched, the calls
\* made went to regions of the list in list order, and a call is issued
\* only on a client bound to the loop's region
C10_InSweep ==
    Sweeping =>
        /\ invoker.region_idx \in 1..Len(regions)
        /\ invoker.attempt \in 1..StopAfterAttempt
        /\ invoker.failed =
              (IF invoker.phase = "sweep_failed"
               THEN RegionsBefore(Len(regions) + 1)
               ELSE RegionsBefore(invoker.region_idx))
        /\ \A i \in DOMAIN invoker.sweep_log :
              /\ invoker.sweep_log[i] \in invoker.failed
              /\ \A j \in DOMAIN invoker.sweep_log :
                    i < j => RegionIndex(invoker.sweep_log[i])
                               < RegionIndex(invoker.sweep_log[j])
        /\ invoker.phase = "call" =>
              invoker.bound_region = regions[invoker.region_idx]

\* one step of the invoker: the loop moves to the next region only when the
\* current one failed; a call that returns ends the sweep at once (the next
\* generate call, if any, starts at the first region of a first attempt);
\* a retry starts a new sweep at the first region
C10_Step ==
    /\ (Sweeping /\ invoker'.region_idx = invoker.region_idx + 1) =>
          /\ invoker'.attempt = invoker.attempt
          /\ regions[invoker.region_idx] \in invoker'.failed
    /\ (Sweeping /\ invoker'.region_idx # invoker.region_idx) =>
          invoker'.region_idx \in {0, 1, invoker.region_idx + 1}
    /\ (Sweeping /\ analysis' # analysis) =>
          /\ invoker.phase = "call"
          /\ invoker'.bound_region = regions[invoker.region_idx]
          /\ \/ invoker'.phase = "idle"
             \/ /\ invoker'.phase = "init"
                /\ invoker'.region_idx = 1
                /\ invoker'.attempt = 1
                /\ invoker'.sweep_log = <<>>
    /\ (Sweeping /\ invoker'.attempt = invoker.attempt + 1) =>
          /\ invoker.phase = "sweep_failed"
          /\ invoker'.phase = "init"
          /\ invoker'.region_idx = 1
          /\ invoker'.sweep_log = <<>>
          /\ invoker'.failed = {}

\* C10: within one sweep regions are tried in list order from the first
\* region, the client is re-bound to a region before the call to it, a
\* region is tried only after every earlier one failed in this sweep, the
\* first region that answers ends the sweep, and every retry sweep starts
\* again at the first region.
C10_RegionOrder == [](C10_InSweep) /\ [][C10_Step]_vars

C10_Witness ==
    /\ pc = "generate"
    /\ invoker.attempt = 2
    /\ invoker.phase = "call"
    /\ invoker.region_idx = 3
    /\ invoker.bound_region = "europe-west3"
    /\ invoker.sweep_log = <<"us-central1", "europe-west2">>

-----------------------------------------------------------------------------
(* Properties of extract_location_from_path (checked under SpecPath)        *)

FilePath == cloud_event.name

\* position of the first and of the last "/" of a key that has one
FirstSlash(key) ==
    CHOOSE n \in 1..Len(key) :
        key[n] = Slash /\ \A i \in 1..(n - 1) : key[i] # Slash
LastSlash(key) ==
    CHOOSE n \in 1..Len(key) :
        key[n] = Slash /\ \A i \in (n + 1)..Len(key) : key[i] # Slash

\* some segment of the key starts with the marker
HasMarkerSegment(key) ==
    \E i \in 1..Len(key) : key[i] = Marker /\ (i = 1 \/ key[i - 1] = Slash)

\* the last segment of the key starts with the marker
LastSegmentHasMarker(key) ==
    LastSlash(key) < Len(key) /\ key[LastSlash(key) + 1] = Marker

\* the text before the first "/"
TextBeforeFirstSlash(key) == SubSeq(key, 1, FirstSlash(key) - 1)

\* the text before the last "/", with every "/" in it turned into "_"
FoldersUnderscored(key) ==
    [i \in 1..(LastSlash(key) - 1) |->
        IF key[i] = Slash THEN Underscore ELSE key[i]]

\* C7: a key with at least one "/" and no segment starting with the
\* full_path_ marker yields its first path segment ("Paris/eiffel.jpg"
\* yields "Paris"); an empty key and a key without "/" yield no location.
C7_FirstSegment ==
    pc = "path_done" =>
        /\ (HasSlash(FilePath) /\ ~HasMarkerSegment(FilePath)
               => location_name = TextBeforeFirstSlash(FilePath))
        /\ (FilePath = ParisKey => location_name = <<"Paris">>)
        /\ (FilePath = EmptyStr \/ ~HasSlash(FilePath) => location_name = None)

C7_Witness ==
    /\ pc = "path_done"
    /\ FilePath = ParisKey
    /\ location_name = <<"Paris">>

\* C8 as stated: whenever some segment of the key starts with the marker,
\* wherever that segment stands, the derived name is all segments except
\* the last joined by underscores.  (Keys without "/" have no folder
\* segment and are left aside.)
C8_MarkerAnywhere ==
    pc = "path_done" /\ HasSlash(FilePath) /\ HasMarkerSegment(FilePath)
        => location_name = FoldersUnderscored(FilePath)

\* C8 as amended: when the LAST segment of a key with at least one "/"
\* starts with the marker, the derived name is all segments except the last
\* joined by underscores, however many segments there are; a marker at the
\* start of any other segment has no effect, the name is the first segment.
C8_MarkerLast ==
    pc = "path_done" /\ HasSlash(FilePath) =>
        IF LastSegmentHasMarker(FilePath)
        THEN location_name = FoldersUnderscored(FilePath)
        ELSE location_name = TextBeforeFirstSlash(FilePath)

C8_Witness ==
    /\ pc = "path_done"
    /\ FilePath = <<"a", Slash, "b", Slash, "a", Slash, Marker>>
    /\ location_name = <<"a", Underscore, "b", Underscore, "a">>

-----------------------------------------------------------------------------
(* Properties of the invoker's failure and of analyze_image (under Spec)    *)

AllRegions == {regions[i] : i \in 1..Len(regions)}

\* the last sweep the decorator allows has failed in every region
Exhausted ==
    /\ Sweeping
    /\ invoker.phase = "sweep_failed"
    /\ invoker.attempt = StopAfterAttempt

\* the value analyze_image holds for generate call number k
FieldOf(an, k) ==
    IF k = 1 THEN an.context_description
    ELSE IF k = 2 THEN an.visual_characteristics
    ELSE an.object_annotations

\* one step of the invoker: it raises only out of a third sweep in which
\* every region failed, and out of such a sweep it does raise; a further
\* sweep is started only after a sweep in which every region failed (so
\* the third sweep follows two such sweeps); a region that answers hands
\* its result to the caller, with no error
C11_Step ==
    /\ (Sweeping /\ outcome'.analysis = "fail") =>
          /\ Exhausted
          /\ invoker.failed = AllRegions
    /\ Exhausted =>
          /\ outcome'.analysis = "fail"
          /\ analysis' = analysis
    /\ (Sweeping /\ invoker'.attempt = invoker.attempt + 1) =>
          /\ invoker.phase = "sweep_failed"
          /\ invoker.failed = AllRegions
    /\ (Sweeping /\ invoker.phase = "sweep_failed") =>
          invoker.failed = AllRegions
    /\ (Sweeping /\ analysis' # analysis) =>
          /\ invoker.phase = "call"
          /\ invoker.failed # AllRegions
          /\ outcome'.analysis # "fail"
          /\ ~result'.returned
          /\ FieldOf(analysis', analysis.step) # None

\* C11: the invoker's generate signals failure if and only if every region
\* failed in each of the three sweep attempts; when any region answers in
\* any sweep the caller receives that result and no error.
C11_FailureOnlyWhenExhausted == [][C11_Step]_vars

\* the second generate call was answered in no region of any sweep, after
\* the first call had been answered
C11_Witness ==
    /\ pc = "done"
    /\ outcome.analysis = "fail"
    /\ analysis.step = 2
    /\ analysis.context_description # None
    /\ invoker.phase = "idle"

\* C12 as stated: a response text that is not valid JSON counts as a failed
\* region, so no generate call ever returns from such a text.
C12_BadJsonFailsRegion ==
    \A k \in DOMAIN analysis.texts : analysis.texts[k]

\* the step in which a generate call returns from text that is not JSON
ReturnsFromBadJson ==
    /\ Sweeping
    /\ Len(analysis'.texts) = Len(analysis.texts) + 1
    /\ ~analysis'.texts[Len(analysis'.texts)]

\* C12 as amended: a response text that is not valid JSON is parsed to the
\* empty object, and the region counts as answered: the invoker returns at
\* once, without noting a failed region, without going to a further region
\* or sweep, and the caller reads the default of its field.
C12_BadJsonIsEmptyObject ==
    /\ [](\A k \in DOMAIN analysis.texts :
             ~analysis.texts[k] => FieldOf(analysis, k) = EmptyStr)
    /\ [][ReturnsFromBadJson =>
             /\ invoker.phase = "call"
             /\ invoker'.failed = {}
             /\ invoker'.phase \in {"idle", "init"}
             /\ invoker'.phase = "init" =>
                    invoker'.region_idx = 1 /\ invoker'.attempt = 1
             /\ outcome'.model = outcome.model
             /\ outcome'.analysis # "fail"]_vars

C12_Witness ==
    /\ pc = "generate"
    /\ analysis.step = 2
    /\ analysis.texts = <<FALSE>>
    /\ analysis.context_description = EmptyStr
    /\ outcome.model = "none"

\* the response text of generate call k carried the field the call reads
HadField(k) == FieldOf(analysis, k) = <<"v">>

C14_InvokerFailureEndsRun ==
    /\ [](outcome.analysis = "fail" =>
             /\ Returned(StatusError)
             /\ outcome.embedding = "none"
             /\ "get_embeddings" \notin Ops
             /\ sink_call = NoDict)
    /\ [][\A k \in 1..Len(AnalysisFields) :
             (Exhausted /\ analysis.step = k) =>
                /\ outcome'.analysis = "fail"
                /\ pc' = "done"
                /\ result' = [returned |-> TRUE, status |-> StatusError]
                /\ sink_call' = NoDict]_vars

\* the third call failed after two calls had been answered
C14_Witness ==
    /\ Returned(StatusError)
    /\ outcome.analysis = "fail"
    /\ analysis.step = 3
    /\ analysis.context_description = <<"v">>
    /\ analysis.visual_characteristics = <<"v">>
    /\ analysis.object_annotations = None

-----------------------------------------------------------------------------
(* Properties of upsert_embedding (checked under SpecSink)                  *)

\* the records the sink holds for an identifier
HasBackup(id) == BlobName(id) \in DOMAIN backups
HasDocument(id) == id \in DOMAIN documents

\* one step of the sink: each store is written at its own stage only, one
\* store per step, in the order backup, document, index; a call that
\* raises writes nothing in the step it raises in
C15_Step ==
    /\ backups' # backups =>
          pc = "sink_backup" /\ documents' = documents /\ index' = index
    /\ documents' # documents =>
          pc = "sink_metadata" /\ backups' = backups /\ index' = index
    /\ index' # index =>
          pc = "sink_index" /\ backups' = backups /\ documents' = documents
    /\ (upsert'.raised /\ ~upsert.raised) =>
          /\ backups' = backups /\ documents' = documents /\ index' = index
          /\ pc' = "sink_idle"

\* C15: in every reachable state of the sink, also after an upsert that
\* failed part-way, every identifier in the vector index has a backup blob
\* and a metadata document (and every document a backup): the backup is
\* written first, then the document, then the datapoint, and a failed
\* write leaves the later ones unwritten.
C15_IndexedIdsHaveRecords ==
    /\ [](/\ \A id \in index : HasBackup(id) /\ HasDocument(id)
          /\ \A id \in DOMAIN documents : HasBackup(id)
          /\ upsert.raised =>
                /\ upsert.generated_id \notin index
                /\ ~HasBackup(upsert.generated_id) =>
                       ~HasDocument(upsert.generated_id))
    /\ [][C15_Step]_vars

\* after one complete upsert, a second one failed at the index write
C15_Witness ==
    /\ pc = "sink_idle"
    /\ upsert.raised
    /\ Cardinality(index) = 1
    /\ HasBackup(upsert.generated_id)
    /\ HasDocument(upsert.generated_id)
    /\ upsert.generated_id \notin index

\* C16: each upsert generates a new identifier that does not depend on the
\* file path it is given (calls with the same path get different
\* identifiers), uses that one identifier for the backup blob's name, the
\* document's key and the datapoint's id, and returns it on success.
C16_OneFreshIdentifier ==
    /\ \A i, j \in DOMAIN upsert.log :
          i # j => upsert.log[i].id # upsert.log[j].id
    /\ \A i \in DOMAIN upsert.log :
          upsert.log[i].id \notin {upsert.log[i].file_path,
                                   Basename(upsert.log[i].file_path)}
    /\ \A name \in DOMAIN backups :
          /\ name = BlobName(backups[name].id)
          /\ \E i \in DOMAIN upsert.log :
                /\ upsert.log[i].id = backups[name].id
                /\ upsert.log[i].file_path = backups[name].full_path
    /\ \A id \in DOMAIN documents :
          \E i \in DOMAIN upsert.log :
             /\ upsert.log[i].id = id
             /\ upsert.log[i].file_path = documents[id]["full_path"]
    /\ \A id \in index : \E i \in DOMAIN upsert.log : upsert.log[i].id = id
    /\ upsert.returned # None =>
          /\ upsert.returned = upsert.generated_id
          /\ ~upsert.raised
          /\ upsert.returned \in index
          /\ HasDocument(upsert.returned)
          /\ HasBackup(upsert.returned)
          /\ backups[BlobName(upsert.returned)].id = upsert.returned

\* two completed upserts of the same file path
C16_Witness ==
    /\ pc = "sink_idle"
    /\ Len(upsert.log) = 2
    /\ upsert.log[1].file_path = upsert.log[2].file_path
    /\ upsert.returned = upsert.log[2].id
    /\ index = {upsert.log[1].id, upsert.log[2].id}
    /\ Cardinality(index) = 2

-----------------------------------------------------------------------------
(* Properties of the location service (checked under SpecResolver)          *)

\* the entry point has returned to its caller
ResolverDone == pc \in {"encode", "returned"}

IsLocationDetails(v) ==
    DOMAIN v = {"formatted_address", "latitude", "longitude", "place_id",
                "components"}

\* C17: no entry point of the location service (by image, by name, by
\* coordinates) ever raises: a call that has not returned can take its next
\* step, what is returned is a location record or no location, and when
\* the geocoding or place-search collaborator fails or returns an empty
\* list the entry point returns no location.
C17_ResolverNeverRaises ==
    /\ ~ResolverDone => ENABLED NextResolver
    /\ resolver.returned = NoLocation \/ IsLocationDetails(resolver.returned)
    /\ ResolverDone /\ (resolver.answer.raises \/ resolver.answer.results = <<>>)
          => resolver.returned = NoLocation /\ location_info = NoLocation
    /\ ResolverDone /\ "reverse_geocode" \notin Ops
          => resolver.returned = NoLocation /\ location_info = NoLocation
    /\ ResolverDone /\ resolver.returned # NoLocation
          => /\ pc = "encode"
             /\ location_info = resolver.returned
             /\ ~resolver.answer.raises
             /\ resolver.answer.results # <<>>

\* entered by name, the place was found and the reverse geocoding raised
C17_Witness ==
    /\ pc = "encode"
    /\ location_name = <<"Tokyo">>
    /\ Ops = {"places", "reverse_geocode"}
    /\ resolver.answer.raises
    /\ resolver.returned = NoLocation

\* C18: for an image with complete GPS latitude and longitude tags,
\* extract_location_from_image returns what the lookup by coordinates
\* returns for the converted pair: when it has returned, the reverse
\* geocoding was asked about exactly that pair.
C18_ImageUsesCoordinateLookup ==
    (pc = "returned" /\ resolver.coordinates # NoCoordinates) =>
        \E i \in DOMAIN calls :
           calls[i] = Call("reverse_geocode", resolver.coordinates)

\* the four keys of "components" with their type tags, in the order the
\* if/elif chain tests them
ComponentKeys == <<"country", "state", "city", "postal_code">>
ComponentTags == <<"country", "administrative_area_level_1", "locality",
                   "postal_code">>

FirstCandidate == resolver.answer.results[1]

\* positions of the components carrying tag number n
Carriers(n) ==
    {i \in DOMAIN FirstCandidate.address_components :
        ComponentTags[n] \in FirstCandidate.address_components[i].types}

\* positions of the components whose first tag, in the order of the chain,
\* is tag number n
Setters(n) ==
    {i \in Carriers(n) : \A m \in 1..(n - 1) : i \notin Carriers(m)}

Least(S) == CHOOSE i \in S : \A j \in S : i <= j
Greatest(S) == CHOOSE i \in S : \A j \in S : i >= j

\* the lookup by coordinates returned a record
LookupAnswered ==
    /\ pc = "encode"
    /\ ~resolver.answer.raises
    /\ resolver.answer.results # <<>>

\* the record is built from the first candidate alone
FromFirstCandidateOnly ==
    /\ resolver.returned # NoLocation
    /\ resolver.returned.formatted_address = FirstCandidate.formatted_address
    /\ resolver.returned.place_id = FirstCandidate.place_id
    /\ resolver.returned.latitude = resolver.coordinates[1]
    /\ resolver.returned.longitude = resolver.coordinates[2]

\* C19 as stated: only the first candidate is used, and each of country,
\* state, city and postal code holds the name of the FIRST address
\* component, in list order, that carries its type tag.
C19_FirstComponentWins ==
    LookupAnswered =>
        /\ FromFirstCandidateOnly
        /\ \A n \in DOMAIN ComponentKeys :
              Carriers(n) # {} =>
                 /\ ComponentKeys[n] \in DOMAIN resolver.returned.components
                 /\ resolver.returned.components[ComponentKeys[n]] =
                       FirstCandidate.address_components[Least(Carriers(n))].long_name

\* C19 as amended: only the first candidate is used; a component sets one
\* key only, that of the first of the tags country,
\* administrative_area_level_1, locality, postal_code it carries; each key
\* holds the name of the LAST component, in list order, that sets it (a
\* later component replaces an earlier one), and is absent when no
\* component sets it.
C19_LastComponentWins ==
    LookupAnswered =>
        /\ FromFirstCandidateOnly
        /\ \A n \in DOMAIN ComponentKeys :
              IF Setters(n) = {}
              THEN ComponentKeys[n] \notin DOMAIN resolver.returned.components
              ELSE /\ ComponentKeys[n] \in DOMAIN resolver.returned.components
                   /\ resolver.returned.components[ComponentKeys[n]] =
                         FirstCandidate.address_components[Greatest(Setters(n))].long_name

\* two candidates; the first has three locality components, the last of
\* which is also tagged country
C19_Witness ==
    /\ LookupAnswered
    /\ resolver.answer.results = <<Shibuya, Tokyo>>
    /\ resolver.returned.components["city"] = <<"Tokyo">>
    /\ resolver.returned.components["country"] = <<"Japan">>
    /\ resolver.returned.place_id = <<"p2">>

\* the GPS tags of the image, with the defaults of the references
GpsTags == resolver.image.gps_info
LatitudeRef ==
    IF "GPSLatitudeRef" \in DOMAIN GpsTags THEN GpsTags["GPSLatitudeRef"] ELSE "N"
LongitudeRef ==
    IF "GPSLongitudeRef" \in DOMAIN GpsTags THEN GpsTags["GPSLongitudeRef"] ELSE "E"

\* the image has both tags, each with degrees, minutes and seconds
CompleteGpsTags ==
    /\ resolver.image.opens
    /\ resolver.image.exif
    /\ {"GPSLatitude", "GPSLongitude"} \subseteq DOMAIN GpsTags
    /\ GpsTags["GPSLatitude"] \in DmsValues
    /\ GpsTags["GPSLongitude"] \in DmsValues

\* degrees + minutes/60 + seconds/3600, times 3600
ArcSeconds(dms) == 3600 * dms[1] + 60 * dms[2] + dms[3]

\* no component of a is larger than that of b
ComponentwiseLeq(a, b) == \A i \in 1..3 : a[i] <= b[i]

\* C20: for every degree/minute/second latitude and longitude, the decimal
\* value is degrees + minutes/60 + seconds/3600 (coordinates are held in
\* arc-seconds, the decimal value times 3600), it does not decrease when a
\* component grows, and it is negated exactly when the latitude reference
\* is S, respectively the longitude reference is W.
C20_DecimalDegrees ==
    (pc # "by_image" /\ CompleteGpsTags) =>
        /\ resolver.coordinates # NoCoordinates
        /\ resolver.coordinates[1] =
              (IF LatitudeRef = "S" THEN 0 - ArcSeconds(GpsTags["GPSLatitude"])
               ELSE ArcSeconds(GpsTags["GPSLatitude"]))
        /\ resolver.coordinates[2] =
              (IF LongitudeRef = "W" THEN 0 - ArcSeconds(GpsTags["GPSLongitude"])
               ELSE ArcSeconds(GpsTags["GPSLongitude"]))
        /\ \A dms \in DmsValues :
              /\ ComponentwiseLeq(GpsTags["GPSLatitude"], dms) =>
                    convert_to_degrees(GpsTags["GPSLatitude"])
                       <= convert_to_degrees(dms)
              /\ ComponentwiseLeq(dms, GpsTags["GPSLongitude"]) =>
                    convert_to_degrees(dms)
                       <= convert_to_degrees(GpsTags["GPSLongitude"])

\* 1 deg 2 min 0 s south, 2 deg 0 min 1 s west
C20_Witness ==
    /\ pc = "lookup"
    /\ GpsTags = GpsDict(<<1, 2, 0>>, "S", <<2, 0, 1>>, "W")
    /\ resolver.coordinates = <<0 - 3720, 0 - 7201>>

-----------------------------------------------------------------------------
(* Properties of generate_embedding (checked under SpecEmbedding)           *)

\* C21: every vector generate_embedding returns has Euclidean length 1 and
\* the dimension 1408, whatever vector the collaborator returned, the
\* all-zero vector included: no component is nan, and the sum of the
\* squares of the numerators equals the square of the divisor.
C21_UnitLength ==
    pc = "embedded" =>
        /\ embedding_generator.returned.dimension = Dimension
        /\ ~embedding_generator.returned.nan
        /\ embedding_generator.returned.divisor_squared # 0
        /\ NormSquared([components |-> embedding_generator.returned.numerators])
              = embedding_generator.returned.divisor_squared

-----------------------------------------------------------------------------
(* Properties of interleaved invocations (checked under SpecConcurrent)     *)

\* C22: two interleaved invocations for different object keys share no
\* mutable state: each invocation encodes and embeds the image of its own
\* object, and each of its generate_content calls goes through a client
\* bound to the region that invocation has just initialised.
C22_NoSharedState ==
    \A w \in 1..Len(workers) :
        /\ workers[w].encoded \in {NoContent, workers[w].file_name}
        /\ workers[w].embedded \in {NoContent, workers[w].file_name}
        /\ workers[w].used # NoDict =>
              workers[w].used.bound = workers[w].used.asked

-----------------------------------------------------------------------------
(* Properties of the relocation (checked under SpecRelocate)                *)

-----------------------------------------------------------------------------
(* Order of the stages (checked under Spec)                                 *)

\* the positions of process_image in the order of its statements
Positions ==
    <<"start", "reload", "download", "location", "places", "reverse_geocode",
      "encode", "generate", "embed", "upsert", "sink", "rewrite", "delete",
      "done">>
PositionOf(p) == CHOOSE i \in 1..Len(Positions) : Positions[i] = p

\* the collaborator calls outside the invoker, in the order of the stages
StageCalls ==
    <<"reload", "download", "places", "reverse_geocode", "get_embeddings",
      "rewrite", "delete">>
StageOf(op) == CHOOSE i \in 1..Len(StageCalls) : StageCalls[i] = op

\* a step inside the invoker stays in the analysis stage; every other step
\* moves to a later position
C24_Step ==
    \/ pc = "generate" /\ pc' = "generate"
    \/ PositionOf(pc') > PositionOf(pc)

\* C24: the stages run in the fixed order validate, fetch, resolve
\* location, analyze, embed, upsert, copy, delete, each after the previous
\* one finished and none entered twice; outside the invoker no collaborator
\* call is issued more than once, and the upsert call is made at most once.
C24_StageOrder ==
    /\ [](/\ \A i \in 1..Len(calls) : \A j \in 1..Len(calls) :
               i < j => StageOf(calls[i].op) < StageOf(calls[j].op)
          /\ sink_call # NoDict => PositionOf(pc) > PositionOf("upsert"))
    /\ [][C24_Step]_vars

\* a run that went through every stage up to the upsert call, with one
\* call to each collaborator
C24_Witness ==
    /\ pc = "done"
    /\ sink_call # NoDict
    /\ Len(calls) = 5

-----------------------------------------------------------------------------
(* Termination of the invoker (checked under SpecInvokerFair)               *)

\* analyze_image is over: it returned its ImageAnalysis, or an exception
\* left it
AnalyzeImageOver == pc \in {"embed", "done"}

\* C25: when every model call returns or fails, each generate call ends
\* after at most 3 sweeps and 18 model calls, and analyze_image ends after
\* at most 54 model calls.
C25_Terminates ==
    /\ [](/\ invoker.attempt <= 3
          /\ meter.generate_calls <= 18
          /\ meter.analyze_calls <= 54)
    /\ \A k \in 1..Len(AnalysisFields) :
          (pc = "generate" /\ analysis.step = k)
             ~> (AnalyzeImageOver \/ analysis.step > k)
    /\ <>AnalyzeImageOver

\* the third generate call failed in every region of every sweep, after two
\* calls that returned from their last region of their last sweep
C25_Witness ==
    /\ Returned(StatusError)
    /\ meter.generate_calls = 18
    /\ meter.analyze_calls = 54

-----------------------------------------------------------------------------
(* The sink and its caller's records (checked under SpecSink)               *)

\* an upsert_embedding call has returned or raised
UpsertOver == pc = "sink_idle" /\ (upsert.returned # None \/ upsert.raised)

\* the keys the sink writes into the dict it is given
SinkKeys == {"file_name", "full_path", "created_at"}

\* C26 as stated: after the sink's upsert returns or fails, the caller's
\* metadata mapping has the same keys and values as when it was passed.
C26_MetadataUntouched == UpsertOver => upsert.metadata = upsert.given

\* C26, amended: after the call the caller's mapping has file_name set to
\* the base name and full_path to the given path, has created_at set to
\* the timestamp sentinel once the backup was written, and is unchanged in
\* every other key.
C26_MetadataExtended ==
    UpsertOver =>
        /\ DOMAIN upsert.given \subseteq DOMAIN upsert.metadata
        /\ DOMAIN upsert.metadata \subseteq DOMAIN upsert.given \cup SinkKeys
        /\ \A k \in DOMAIN upsert.given \ SinkKeys :
              upsert.metadata[k] = upsert.given[k]
        /\ upsert.metadata["file_name"] = Basename(upsert.file_path)
        /\ upsert.metadata["full_path"] = upsert.file_path
        /\ IF HasBackup(upsert.generated_id)
           THEN upsert.metadata["created_at"] = ServerTimestamp
           ELSE \A k \in DOMAIN upsert.metadata \cap {"created_at"} :
                   /\ k \in DOMAIN upsert.given
                   /\ upsert.metadata[k] = upsert.given[k]

\* a call that returned after replacing the caller's file_name and adding
\* full_path and created_at
C26_Witness ==
    /\ UpsertOver
    /\ upsert.returned # None
    /\ DOMAIN upsert.given = {"context", "file_name"}
    /\ upsert.given["file_name"] # upsert.metadata["file_name"]
    /\ DOMAIN upsert.metadata = {"context"} \cup SinkKeys

\* C27 as stated: a retry for the same source object overwrites the
\* earlier backup, so there is one backup per source object and no orphan.
C27_OneBackupPerSource ==
    \A a, b \in DOMAIN backups :
        backups[a].full_path = backups[b].full_path => a = b

\* the backup write of the call in flight succeeds in this step
BackupWritten == pc = "sink_backup" /\ pc' = "sink_metadata"

\* C27, amended: every backup write creates a blob under a name no earlier
\* backup has and leaves every earlier backup as it was, so a retry for the
\* same source object adds a second backup next to the first.
C27_RetryAddsBackup ==
    [][BackupWritten =>
          /\ BlobName(upsert.generated_id) \notin DOMAIN backups
          /\ DOMAIN backups' = DOMAIN backups \cup {BlobName(upsert.generated_id)}
          /\ \A name \in DOMAIN backups : backups'[name] = backups[name]]_vars

\* two backups of the same source object
C27_Witness ==
    \E a, b \in DOMAIN backups :
        a # b /\ backups[a].full_path = backups[b].full_path

\* C28: an attempt that reaches the sink never overwrites or removes a
\* backup, a document or an index entry of an earlier attempt, and writes
\* under an identifier distinct from those of all earlier attempts.
C28_EarlierRecordsKept ==
    /\ [](\A i, j \in DOMAIN upsert.log :
             i # j => upsert.log[i].id # upsert.log[j].id)
    /\ [][/\ index \subseteq index'
          /\ \A name \in DOMAIN backups :
                name \in DOMAIN backups' /\ backups'[name] = backups[name]
          /\ \A id \in DOMAIN documents :
                id \in DOMAIN documents' /\ documents'[id] = documents[id]]_vars

\* a second attempt for the same file path went through all three writes
\* next to the records of the first
C28_Witness ==
    /\ Len(upsert.log) = 2
    /\ upsert.log[1].file_path = upsert.log[2].file_path
    /\ \A i \in 1..2 :
          /\ upsert.log[i].id \in index
          /\ HasDocument(upsert.log[i].id)
          /\ HasBackup(upsert.log[i].id)
    /\ pc = "sink_idle"

-----------------------------------------------------------------------------
(* Redelivery (checked under SpecRedeliver)                                 *)

\* C29: when the event of a run in which no stage failed (the run the
\* pipeline returns 200 for) is delivered again, the second run finds the
\* source object gone: it fails at the fetch stage with status 500, having
\* called no collaborator after the fetch, and the index, the documents,
\* the backups and the processed bucket are as the first run left them.
C29_RedeliveryChangesNothing ==
    (/\ Len(deliveries) = 1
     /\ deliveries[1].reached_upsert
     /\ pc = "done")
    => /\ deliveries[1].status = StatusSuccess
       /\ Returned(StatusError)
       /\ outcome.fetch = "fail"
       /\ Ops \subseteq {"reload", "download"}
       /\ index = deliveries[1].index
       /\ backups = deliveries[1].backups
       /\ documents = deliveries[1].documents
       /\ processed_bucket = deliveries[1].processed_bucket

-----------------------------------------------------------------------------
(* The search service (checked under SpecSearch)                            *)

\* the neighbours within the threshold, in index order
Within(neighbors, threshold) ==
    SelectSeq(neighbors, LAMBDA n : n.distance <= threshold)

\* the request body has no 'query' field
NoQueryField ==
    search.body \in {InvalidBody, NullBody} \/ "query" \notin DOMAIN search.body

\* C30: a search that succeeds returns exactly the neighbours with distance
\* <= threshold, in index order, each with similarity_score = 1 - distance
\* and with the metadata of its document, or empty metadata when it has
\* none; a POST /search without a 'query' field returns 400 without
\* querying the index.
C30_SearchContract ==
    /\ (search.phase = "done" /\ search.status = StatusSuccess) =>
          LET kept == Within(search.neighbors, search.threshold)
              got == search.response.results
          IN  /\ Len(got) = Len(kept)
              /\ \A i \in 1..Len(kept) :
                    /\ got[i].id = kept[i].id
                    /\ got[i].similarity_score = One - kept[i].distance
                    /\ got[i].metadata =
                          IF HasDocument(kept[i].id) THEN documents[kept[i].id]
                          ELSE EmptyDict
    /\ (search.phase = "done" /\ NoQueryField) =>
          search.status = StatusBadRequest /\ ~search.queried

=============================================================================
